---- MODULE Spec2Model ----
(***************************************************************************)
(* The ammunition shortage / readiness computation of the 9215 dashboard.  *)
(* Two revisions of the dashboard script, app8.py and app7.py, run against *)
(* the same SQLite file (tank_battalion.db).  One run of a script (a       *)
(* Streamlit rerun) loads the vehicles and ammo tables, applies the        *)
(* sidebar filter, builds the per-row shortage table and, in app8, the     *)
(* "quick shortage percentage" aggregate table.                            *)
(*                                                                         *)
(* Quantities are REAL in the database.  The model keeps them in fixed     *)
(* point: every quantity is an integer number of 1/UNITS rounds, so that   *)
(* int(x) (truncation to whole rounds) is a real conversion.               *)
(***************************************************************************)
EXTENDS Integers, Sequences, FiniteSets, TLC

VARIABLES
    db_vehicles,            \* live table "vehicles": sequence of rows
    db_ammo,                \* live table "ammo": sequence of rows, raw cells
    db_vehicles_history,    \* table "vehicles_history": rows with their ts
    db_ammo_history,        \* table "ammo_history": rows with their ts
    ammo_history_cols,      \* the columns table "ammo_history" was made with
    db_requirements,        \* table "requirements": rows in id order
    db_requirements_history,\* table "requirements_history": rows in id order
    clock,                  \* datetime.now(), in whole seconds
    cached,                 \* st.cache_data holds load_data's result
    save_count,             \* calls of save_with_history so far
    save_args,              \* the last call's table, rows written and ts
    save_ok,                \* the last call's success flag
    note_count,             \* clicks of "Save Note" so far
    note_args,              \* the last click's pair, note, ts and outcome
    load_pc,                \* where this session's load_data stands
    veh_read,               \* df_veh as load_data read it
    other_pc,               \* where another session's button run stands
    other_save,             \* that run's table, rows and ts
    db_log,                 \* the (vehicles, ammo) contents after each save
    triple_standard,        \* TRIPLE_AMMO_STANDARD as the run finds it set
    app,                    \* which script ran last: "none", "app8", "app7"
    veh_df, ammo_df,        \* load_data()'s result in the last run
    pluga_sel, loc_sel, z_sel, type_sel,   \* the four filter select boxes
    veh_view,               \* filtered vehicles
    ammo_view,              \* filtered ammo (app7: ammo_filtered)
    shortage_rows,          \* app8: display rows; app7: shortage_rows
    shortage_numeric_rows,  \* app8: numeric shortage rows (shrt)
    final_disp_cols,        \* app8: final_disp_cols; app7: show_cols
    shortage_num_df,        \* app8: shortage_num_df; app7: shortage_df
    summary_data,           \* app8: rows of the quick shortage % table
    gauge_pct,              \* app8: the gauges' pct per ammo type
    usage_edit_dec,         \* app8: the Daily Usage cells of the usage editor
    analysis_rows_dec,      \* app8: rows of the days-to-depletion table
    veh_scenario_edits,     \* app8: cells edited in the maintenance editor
    comp_rows_veh,          \* app8: rows of the maintenance forecast
    all_hist_ts,            \* app8: all_hist_ts; app7: hist_ts
    chosen_ts_hist,         \* app8: chosen_ts_hist; app7: ts_sel (<<>>: none)
    df_veh_hist_snap,       \* app8: df_veh_hist_snap; app7: veh_hist
    df_ammo_hist_snap,      \* app8: df_ammo_hist_snap; app7: ammo_hist
    err                     \* the exception that ended the run, "" if none

vars == <<db_vehicles, db_ammo, db_vehicles_history, db_ammo_history,
          ammo_history_cols, db_requirements, db_requirements_history, clock,
          cached, save_count, save_args, save_ok, note_count, note_args,
          load_pc, veh_read,
          other_pc, other_save, db_log, triple_standard, app, veh_df, ammo_df, pluga_sel, loc_sel,
          z_sel, type_sel, veh_view, ammo_view, shortage_rows,
          shortage_numeric_rows, final_disp_cols, shortage_num_df,
          summary_data, gauge_pct, usage_edit_dec, analysis_rows_dec,
          veh_scenario_edits, comp_rows_veh, all_hist_ts, chosen_ts_hist,
          df_veh_hist_snap, df_ammo_hist_snap, err>>

(***************************************************************************)
(* Bounds of the model.                                                    *)
(***************************************************************************)
MaxVeh == 3

\* Rows of the maintenance editor whose cells the model edits.
MaxEditRows == 1

\* The saves of one behaviour.
MaxSaves == 2

\* The clicks of "Save Note" of one behaviour.
MaxNotes == 2

(***************************************************************************)
(* Program constants.                                                      *)
(***************************************************************************)
STANDARDS_AMMO ==
    [hetz |-> 3, barzel |-> 10, regular_556 |-> 990, mag |-> 30,
     nafetiz60 |-> 21, teura60 |-> 9, meducut |-> 12]

\* The iteration order of the STANDARDS_AMMO dict.
STANDARDS_KEYS ==
    <<"hetz", "barzel", "regular_556", "mag", "nafetiz60", "teura60", "meducut">>

TRIPLE_AMMO_TYPES == <<"calanit", "halul", "hatzav">>

TRIPLE_AMMO_STANDARD == 27

combined_triple_name == "Calanit+Halul+Hatzav"

base_cols_summary == <<"Pluga", "Location", "Z">>

\* Fixed-point scale of a quantity: a REAL column holds q / UNITS rounds.
UNITS == 2

(***************************************************************************)
(* Helpers.                                                                *)
(***************************************************************************)
Range(s) == {s[i] : i \in DOMAIN s}

Max(a, b) == IF a >= b THEN a ELSE b

RECURSIVE SeqSum(_)
SeqSum(s) == IF s = <<>> THEN 0 ELSE Head(s) + SeqSum(Tail(s))

\* The elements of s that are in set S, in the order of s.
Restrict(s, S) == SelectSeq(s, LAMBDA x : x \in S)

\* Python's int() on a float: truncation toward zero, here of q / UNITS.
IntPart(q) == IF q >= 0 THEN q \div UNITS ELSE -((-q) \div UNITS)

\* A raw database cell: a number (in 1/UNITS rounds), NULL / empty text, or
\* a text of characters.
Num(q) == <<"num", q>>
BLANK == <<"blank">>
TextCell(chars) == <<"text", chars>>

(***************************************************************************)
(* load_data.                                                              *)
(***************************************************************************)
AllAmmoCols == Range(STANDARDS_KEYS) \cup Range(TRIPLE_AMMO_TYPES)

\* An identifier cell of the database is its text, a tuple of characters
\* (NULL and the empty text are both <<>> after fillna("")).
DigitChars == <<"0", "1", "2", "3", "4", "5", "6", "7", "8", "9">>

IsDigit(ch) == ch \in Range(DigitChars)

DigitVal(ch) == (CHOOSE d \in DOMAIN DigitChars : DigitChars[d] = ch) - 1

\* str(x): the characters as one string.
RECURSIVE Text(_)
Text(chars) == IF chars = <<>> THEN "" ELSE Head(chars) \o Text(Tail(chars))

\* str.strip(): leading and trailing blanks removed.
RECURSIVE LStrip(_)
LStrip(chars) ==
    IF chars # <<>> /\ Head(chars) = " " THEN LStrip(Tail(chars)) ELSE chars

RECURSIVE RStrip(_)
RStrip(chars) ==
    IF chars # <<>> /\ chars[Len(chars)] = " "
    THEN RStrip(SubSeq(chars, 1, Len(chars) - 1)) ELSE chars

Strip(chars) == RStrip(LStrip(chars))

\* Whether float() gives a finite number for the stripped text: an optional
\* sign, then digits with at most one point and at least one digit.
\* (Exponents, underscores and "nan" need characters outside the texts
\* modelled here.)
IsFloatText(s) ==
    LET body == IF s # <<>> /\ s[1] \in {"+", "-"} THEN Tail(s) ELSE s
    IN  /\ \A i \in DOMAIN body : IsDigit(body[i]) \/ body[i] = "."
        /\ Cardinality({i \in DOMAIN body : body[i] = "."}) <= 1
        /\ \E i \in DOMAIN body : IsDigit(body[i])

\* The value of a run of digits.
RECURSIVE DigitsVal(_)
DigitsVal(ds) ==
    IF ds = <<>> THEN 0
    ELSE 10 * DigitsVal(SubSeq(ds, 1, Len(ds) - 1)) + DigitVal(ds[Len(ds)])

\* str(n) of a natural number.
RECURSIVE NatStr(_)
NatStr(n) ==
    IF n < 10 THEN DigitChars[n + 1]
    ELSE NatStr(n \div 10) \o DigitChars[(n % 10) + 1]

\* str(int(float(s))): the part before the point, truncated toward zero.
IntFloatStr(s) ==
    LET neg == s[1] = "-"
        body == IF s[1] \in {"+", "-"} THEN Tail(s) ELSE s
        dots == {i \in DOMAIN body : body[i] = "."}
        whole == IF dots = {} THEN body
                 ELSE SubSeq(body, 1, (CHOOSE i \in dots : TRUE) - 1)
        n == DigitsVal(whole)
    IN  IF neg /\ n # 0 THEN "-" \o NatStr(n) ELSE NatStr(n)

\* Whether float() gives an infinity for the stripped text, so that int()
\* raises OverflowError, which the except clause does not name: an optional
\* sign, then "inf" (of the spellings float() accepts, the lower-case one).
OverflowText(s) ==
    (IF s # <<>> /\ s[1] \in {"+", "-"} THEN Tail(s) ELSE s)
        = <<"i", "n", "f">>

\* Whether _clean_val raises on the cell.
CleanRaises(x) == OverflowText(Strip(x))

\* A plausible slip: the text is only stripped, never parsed.
_clean_val_StripOnly(x) == Text(Strip(x))

\* clean_id_column's _clean_val on one cell it does not raise on.
_clean_val(x) ==
    IF Strip(x) = <<>> THEN ""
    ELSE IF IsFloatText(Strip(x)) THEN IntFloatStr(Strip(x))
    ELSE Text(Strip(x))

\* float(s) of an accepted text, in 1/UNITS rounds (fractions "", "0", "5").
FloatUnits(s) ==
    LET neg == s[1] = "-"
        body == IF s[1] \in {"+", "-"} THEN Tail(s) ELSE s
        dots == {i \in DOMAIN body : body[i] = "."}
        dot == IF dots = {} THEN Len(body) + 1 ELSE CHOOSE i \in dots : TRUE
        whole == SubSeq(body, 1, dot - 1)
        frac == SubSeq(body, dot + 1, Len(body))
        q == DigitsVal(whole) * UNITS
               + (IF frac # <<>> /\ frac[1] = "5" THEN UNITS \div 2 ELSE 0)
    IN  IF neg THEN -q ELSE q

\* app8: pd.to_numeric(col, errors='coerce').fillna(0.0) on one cell.
ToNumeric8(cell) ==
    IF cell[1] = "num" THEN cell[2]
    ELSE IF cell[1] = "text" /\ IsFloatText(Strip(cell[2]))
         THEN FloatUnits(Strip(cell[2]))
    ELSE 0

\* Whether load_data raises: clean_id_column does, on some identifier.
LoadRaises8(vtbl, atbl) ==
    \/ \E i \in DOMAIN vtbl : CleanRaises(vtbl[i].simon)
    \/ \E i \in DOMAIN atbl : CleanRaises(atbl[i].vehicle_id)

\* app8 load_data, the vehicles frame: the columns the summary tab reads.
LoadVehicles8(tbl) ==
    [i \in DOMAIN tbl |->
        [simon |-> _clean_val(tbl[i].simon), pluga |-> tbl[i].pluga,
         location |-> tbl[i].location]]

\* app8 load_data, the ammo frame: the identifier cleaned, every expected
\* ammo column made numeric.
LoadAmmo8(tbl) ==
    [i \in DOMAIN tbl |->
        [c \in DOMAIN tbl[i] \cup AllAmmoCols |->
            IF c \notin DOMAIN tbl[i] THEN 0
            ELSE IF c \in AllAmmoCols THEN ToNumeric8(tbl[i][c])
            ELSE IF c = "vehicle_id" THEN _clean_val(tbl[i][c])
            ELSE tbl[i][c]]]

\* app7 load_data: fillna("") only; a quantity stays a number or becomes
\* "", an identifier is used as its text (astype(str)), never cleaned.
LoadVehicles7(tbl) ==
    [i \in DOMAIN tbl |->
        [simon |-> Text(tbl[i].simon), pluga |-> tbl[i].pluga,
         location |-> tbl[i].location]]

LoadAmmo7(tbl) ==
    [i \in DOMAIN tbl |->
        [c \in DOMAIN tbl[i] |->
            IF c = "vehicle_id" THEN Text(tbl[i][c]) ELSE tbl[i][c]]]

(***************************************************************************)
(* Filter resolver.                                                        *)
(***************************************************************************)
\* The select boxes' options (without the leading "All").
PlugaOptions(df) == {df[i].pluga : i \in DOMAIN df} \ {""}
LocOptions(df) == {df[i].location : i \in DOMAIN df} \ {""}
ZOptions(df) == {df[i].simon : i \in DOMAIN df} \ {""}

all_types_filter8 == <<"All">> \o STANDARDS_KEYS \o <<combined_triple_name>>

\* A plausible slip: each mask applied to the whole frame, the last one wins.
VehView_LastMaskWins(df, p, l, z) ==
    LET s1 == IF p # "All" THEN SelectSeq(df, LAMBDA v : v.pluga = p) ELSE df
        s2 == IF l # "All" THEN SelectSeq(df, LAMBDA v : v.location = l) ELSE s1
    IN  IF z # "All" THEN SelectSeq(df, LAMBDA v : v.simon = z) ELSE s2

\* veh_view: the rows that equal every selection that is not "All".
VehView(df, p, l, z) ==
    LET s1 == IF p # "All" THEN SelectSeq(df, LAMBDA v : v.pluga = p) ELSE df
        s2 == IF l # "All" THEN SelectSeq(s1, LAMBDA v : v.location = l) ELSE s1
    IN  IF z # "All" THEN SelectSeq(s2, LAMBDA v : v.simon = z) ELSE s2

TankIds(view) == [i \in DOMAIN view |-> view[i].simon]

\* A plausible slip: an empty filter result falls back to the whole ledger.
AmmoView8_AllWhenEmpty(adf, view) ==
    IF TankIds(view) # <<>>
    THEN SelectSeq(adf, LAMBDA a : a.vehicle_id \in Range(TankIds(view)))
    ELSE adf

\* app8 ammo_view: isin(tank_ids), or an empty frame when tank_ids is empty.
AmmoView8(adf, view) ==
    IF TankIds(view) # <<>>
    THEN SelectSeq(adf, LAMBDA a : a.vehicle_id \in Range(TankIds(view)))
    ELSE <<>>

\* app7 ammo_filtered: isin(tank_ids), with no guard.
AmmoFiltered7(adf, view) ==
    SelectSeq(adf, LAMBDA a : a.vehicle_id \in Range(TankIds(view)))

\* app8 show_types.
ShowTypes8(t) ==
    IF t = "All" THEN STANDARDS_KEYS \o TRIPLE_AMMO_TYPES
    ELSE IF t = combined_triple_name THEN TRIPLE_AMMO_TYPES
    ELSE IF t \in Range(all_types_filter8) THEN <<t>> ELSE <<>>

\* app7: the options keep an empty text (dropna() only).
PlugaOptions7(df) == {df[i].pluga : i \in DOMAIN df}
LocOptions7(df) == {df[i].location : i \in DOMAIN df}
ZOptions7(df) == {df[i].simon : i \in DOMAIN df}

all_types7 ==
    <<"hetz", "barzel", "calanit", "halul", "hatzav", "regular_556", "mag",
      "nafetiz60", "teura60", "meducut">>

\* app7 veh_view.
VehView7(df, p, l, z) ==
    LET s1 == IF p # "All" THEN SelectSeq(df, LAMBDA v : v.pluga = p) ELSE df
        s2 == IF l # "All" THEN SelectSeq(s1, LAMBDA v : v.location = l) ELSE s1
    IN  IF z # "All" THEN SelectSeq(s2, LAMBDA v : v.simon = z) ELSE s2

\* app7 show_types.
ShowTypes7(t, columns) ==
    IF t # "All" THEN <<t>>
    ELSE SelectSeq(all_types7, LAMBDA c : c \in columns)

(***************************************************************************)
(* Shortage calculator, app8 (the loop over ammo_view).                    *)
(***************************************************************************)
ShrtCols8 ==
    Range(base_cols_summary) \cup AllAmmoCols \cup {combined_triple_name}

\* vmatch = veh_df[veh_df.simon == sid]; its first row's field, or "N/A".
Lookup8(vdf, sid, field) ==
    LET vmatch == SelectSeq(vdf, LAMBDA v : v.simon = sid)
    IN  IF vmatch # <<>> THEN vmatch[1][field] ELSE "N/A"

\* A plausible slip: the deficit left unclamped.
Short8_NoClamp(row, c) == STANDARDS_AMMO[c] * UNITS - row[c]

\* short = max(std_val - have, 0.0) for an independent type.
Short8(row, c) == Max(STANDARDS_AMMO[c] * UNITS - row[c], 0)

\* triple_val: the pooled holding of the three bundle members.
TripleVal8(row) ==
    SeqSum([i \in DOMAIN TRIPLE_AMMO_TYPES |-> row[TRIPLE_AMMO_TYPES[i]]])

\* A plausible slip: the bundle standard held against one member only.
TripleShort8_FirstMember(row) ==
    Max(TRIPLE_AMMO_STANDARD * UNITS - row[TRIPLE_AMMO_TYPES[1]], 0)

\* triple_short = max(TRIPLE_AMMO_STANDARD - triple_val, 0.0).
TripleShort8(row) == Max(triple_standard * UNITS - TripleVal8(row), 0)

\* shrt: one numeric shortage row.
ShrtRow8(row, vdf) ==
    [c \in ShrtCols8 |->
        CASE c = "Pluga" -> Lookup8(vdf, row.vehicle_id, "pluga")
          [] c = "Location" -> Lookup8(vdf, row.vehicle_id, "location")
          [] c = "Z" -> row.vehicle_id
          [] c \in Range(STANDARDS_KEYS) -> Short8(row, c)
          [] OTHER -> TripleShort8(row)]

\* The text f"{int(have)}({int(short)})" if short > 0 else f"{int(have)}".
DispText(have, short) ==
    [have |-> IntPart(have), short |-> IntPart(short), paren |-> short > 0]

\* disp: one display row.
DispRow8(row, vdf) ==
    [c \in ShrtCols8 |->
        CASE c = "Pluga" -> Lookup8(vdf, row.vehicle_id, "pluga")
          [] c = "Location" -> Lookup8(vdf, row.vehicle_id, "location")
          [] c = "Z" -> row.vehicle_id
          [] c \in Range(STANDARDS_KEYS) -> DispText(row[c], Short8(row, c))
          [] c \in Range(TRIPLE_AMMO_TYPES) ->
                DispText(row[c], TripleShort8(row))
          [] OTHER -> DispText(TripleVal8(row), TripleShort8(row))]

\* A plausible slip: the table keyed by the registry, a vehicle without an
\* ammo row counted as holding nothing.
ShortageNumericRows8_VehicleKeyed(view, vdf) ==
    [i \in DOMAIN vdf |->
        ShrtRow8(IF \E j \in DOMAIN view : view[j].vehicle_id = vdf[i].simon
                 THEN view[CHOOSE j \in DOMAIN view :
                                view[j].vehicle_id = vdf[i].simon]
                 ELSE [c \in {"vehicle_id", "pluga"} \cup AllAmmoCols |->
                        IF c = "vehicle_id" THEN vdf[i].simon
                        ELSE IF c = "pluga" THEN vdf[i].pluga ELSE 0],
                 vdf)]

\* A plausible slip: the list kept across reruns (a module-level or
\* session list), each run appending to what the last one left.
ShortageNumericRows8_Accumulates(view, vdf) ==
    shortage_numeric_rows \o [i \in DOMAIN view |-> ShrtRow8(view[i], vdf)]

ShortageNumericRows8(view, vdf) ==
    [i \in DOMAIN view |-> ShrtRow8(view[i], vdf)]

ShortageRows8(view, vdf) == [i \in DOMAIN view |-> DispRow8(view[i], vdf)]

\* sorted(): the ammo columns in Python's string order.
SORTED_TYPES ==
    <<"barzel", "calanit", "halul", "hatzav", "hetz", "mag", "meducut",
      "nafetiz60", "regular_556", "teura60">>

\* final_disp_cols, from the columns of shortage_disp_df.
FinalDispCols8(rows, t) ==
    LET columns == IF rows = <<>> THEN Range(base_cols_summary) ELSE ShrtCols8
        unique_show_types ==
            Restrict(SORTED_TYPES, Range(ShowTypes8(t)) \cap columns)
        cols == base_cols_summary \o unique_show_types
        withTriple ==
            IF /\ combined_triple_name \in columns
               /\ combined_triple_name \notin Range(cols)
               /\ (t = "All" \/ t = combined_triple_name)
            THEN cols \o <<combined_triple_name>> ELSE cols
    IN  Restrict(withTriple, columns)

\* shortage_num_df: the numeric rows cut to final_disp_cols.
ShortageNumDf8(rows, cols) ==
    IF cols # <<>> /\ rows # <<>>
    THEN [i \in DOMAIN rows |-> [c \in Range(cols) |-> rows[i][c]]]
    ELSE <<>>

\* The two backgrounds of the legend.
RED == "background-color: #ffb3b3"

GREEN == "background-color: #d4f8d4"

\* A plausible slip: a cell with no shortage painted red as well.
HighlightCell_RedAtZero(short_val) == IF short_val >= 0 THEN RED ELSE GREEN

\* highlight_shortage_summary on one cell: float(short_val) > 0.
HighlightCell(short_val) == IF short_val > 0 THEN RED ELSE GREEN

\* highlight_shortage_summary: style_df, '' in the base columns.
HighlightShortageSummary(num_df) ==
    [i \in DOMAIN num_df |->
        [c \in DOMAIN num_df[i] |->
            IF c \in Range(base_cols_summary) THEN ""
            ELSE HighlightCell(num_df[i][c])]]

(***************************************************************************)
(* Aggregator, app8 (the quick shortage percentage table and the gauges).  *)
(***************************************************************************)
\* A quotient a / b kept exact.
Ratio(a, b) == [num |-> a, den |-> b]

\* f"{x:.1f}" of 100 * r: tenths of a percent, rounded half to even.
FormatPct(r) ==
    LET n == r.num * 10
        q == n \div r.den
        m == n % r.den
    IN  IF 2 * m < r.den THEN q
        ELSE IF 2 * m > r.den THEN q + 1
        ELSE IF q % 2 = 0 THEN q ELSE q + 1

\* ammo_view[c].sum()
ColSum(view, c) == SeqSum([i \in DOMAIN view |-> view[i][c]])

\* A plausible slip: the fraction, not the percentage.
ShortPercent_Fraction(col_short, col_need) ==
    IF col_need = 0 THEN Ratio(0, 1) ELSE Ratio(col_short, col_need)

\* short_percent = 0 if col_need == 0 else (col_short / col_need) * 100
ShortPercent(col_short, col_need) ==
    IF col_need = 0 THEN Ratio(0, 1) ELSE Ratio(col_short * 100, col_need)

\* One entry of summary_data, from col_current and the per-vehicle standard.
SummaryRow(type, col_current, std_val, n_tanks) ==
    LET col_need == std_val * UNITS * n_tanks
        col_short == Max(col_need - col_current, 0)
        short_percent == ShortPercent(col_short, col_need)
    IN  [Type |-> type,
         col_current |-> col_current, col_need |-> col_need,
         col_short |-> col_short, short_percent |-> short_percent,
         Current |-> IntPart(col_current), Standard |-> IntPart(col_need),
         Shortage |-> IntPart(col_short),
         ShortagePct |-> IF short_percent.den = 0 THEN 0
                         ELSE IF short_percent.den < 0
                         THEN FormatPct(Ratio(-short_percent.num,
                                              -short_percent.den))
                         ELSE FormatPct(short_percent)]

\* summary_data: one entry per independent type, then the bundle's.
SummaryData8(aview, n_tanks) ==
    [i \in 1..(Len(STANDARDS_KEYS) + 1) |->
        IF i <= Len(STANDARDS_KEYS)
        THEN SummaryRow(STANDARDS_KEYS[i], ColSum(aview, STANDARDS_KEYS[i]),
                        STANDARDS_AMMO[STANDARDS_KEYS[i]], n_tanks)
        ELSE SummaryRow(combined_triple_name,
                        SeqSum([j \in DOMAIN TRIPLE_AMMO_TYPES |->
                                    ColSum(aview, TRIPLE_AMMO_TYPES[j])]),
                        triple_standard, n_tanks)]

\* A plausible slip: the vehicle count taken from the ammo rows.
Summary8_CountsAmmoRows(aview, vview) ==
    IF Len(vview) > 0 /\ aview # <<>>
    THEN SummaryData8(aview, Len(aview)) ELSE <<>>

\* The other revisions' formula: the per-row shortages summed.
Summary8_SumsRowShortages(aview, vview) ==
    IF Len(vview) > 0 /\ aview # <<>>
    THEN [i \in 1..(Len(STANDARDS_KEYS) + 1) |->
            [SummaryData8(aview, Len(vview))[i] EXCEPT !.col_short =
                IF i <= Len(STANDARDS_KEYS)
                THEN SeqSum([j \in DOMAIN aview |->
                                Short8(aview[j], STANDARDS_KEYS[i])])
                ELSE SeqSum([j \in DOMAIN aview |-> TripleShort8(aview[j])])]]
    ELSE <<>>

\* A plausible slip: no guard around the table.
Summary8_NoGuard(aview, vview) == SummaryData8(aview, Len(vview))

\* The table is built only if n_tanks_summary_view > 0 and ammo_view is not
\* empty; otherwise the tab shows "No tanks or ammo data ...".
Summary8(aview, vview) ==
    IF Len(vview) > 0 /\ aview # <<>>
    THEN SummaryData8(aview, Len(vview)) ELSE <<>>

\* The gauge of one type: pct = 0 if need == 0 else (current / need) * 100.
GaugePct(current, need) ==
    IF need = 0 THEN Ratio(0, 1) ELSE Ratio(current * 100, need)

GaugePcts8(aview, n_tanks) ==
    [i \in DOMAIN STANDARDS_KEYS |->
        GaugePct(ColSum(aview, STANDARDS_KEYS[i]),
                 STANDARDS_AMMO[STANDARDS_KEYS[i]] * UNITS * n_tanks)]

(***************************************************************************)
(* Decisions tool, app8: days to depletion and maintenance forecast.       *)
(***************************************************************************)
relevant_ammo_types_dec == SORTED_TYPES

\* float('inf'), as a quotient with divisor 0.
Inf == Ratio(1, 0)

\* The text shown for an unbounded projection.
INFINITY_MARK == <<"text", "oo">>

\* pd.to_numeric(x, errors='coerce'), NaN replaced by the default d.
NumericOr(cell, d) ==
    IF cell[1] = "num" THEN cell[2]
    ELSE IF cell[1] = "text" /\ IsFloatText(Strip(cell[2]))
         THEN FloatUnits(Strip(cell[2]))
    ELSE d

\* round(x, 1), in tenths, or the mark for float('inf').
DaysShown(days_left) ==
    IF days_left = Inf THEN INFINITY_MARK
    ELSE IF days_left.den < 0
         THEN Num(FormatPct(Ratio(-days_left.num, -days_left.den)))
    ELSE Num(FormatPct(days_left))

\* totals_map_dec
TotalsMapDec(adf) ==
    [c \in Range(relevant_ammo_types_dec) |->
        IF adf # <<>> /\ c \in DOMAIN adf[1] THEN ColSum(adf, c) ELSE 0]

\* A plausible slip: no usage read as exhausted today.
DaysLeftDec_ZeroWhenIdle(current_total_dec, use_rate_dec) ==
    IF use_rate_dec > 0 THEN Ratio(current_total_dec, use_rate_dec)
    ELSE Ratio(0, 1)

\* days_left_dec
DaysLeftDec(current_total_dec, use_rate_dec) ==
    IF use_rate_dec > 0 THEN Ratio(current_total_dec, use_rate_dec) ELSE Inf

\* analysis_rows_dec: one row per row of the usage editor.
AnalysisRowsDec(adf, usage) ==
    [i \in DOMAIN relevant_ammo_types_dec |->
        LET atype_dec == relevant_ammo_types_dec[i]
            use_rate_dec == NumericOr(usage[atype_dec], 0)
            current_total_dec == TotalsMapDec(adf)[atype_dec]
            days_left_dec == DaysLeftDec(current_total_dec, use_rate_dec)
        IN  [AmmoType |-> atype_dec,
             current_total_dec |-> current_total_dec,
             CurrentTotal |-> IntPart(current_total_dec),
             DailyUsage |-> use_rate_dec,
             days_left_dec |-> days_left_dec,
             DaysToRunOut |-> DaysShown(days_left_dec)]]

\* The defaults of a row of the maintenance editor.
HOURS_DEFAULT == 100

DefaultScenarioCells ==
    [hours |-> Num(HOURS_DEFAULT * UNITS), usage |-> Num(0)]

\* edited_veh_scenario_dec: one row per registry vehicle, the edited cells
\* in place of the defaults.
EditedVehScenarioDec(vdf, edits) ==
    [i \in DOMAIN vdf |->
        [Z |-> vdf[i].simon, Location |-> vdf[i].location,
         hours |-> IF i \in DOMAIN edits THEN edits[i].hours
                   ELSE DefaultScenarioCells.hours,
         usage |-> IF i \in DOMAIN edits THEN edits[i].usage
                   ELSE DefaultScenarioCells.usage]]

\* hours_left_veh: 100.0 if invalid.
HoursLeftVeh(cell) == NumericOr(cell, HOURS_DEFAULT * UNITS)

\* daily_use_veh: 0.0 if invalid.
DailyUseVeh(cell) == NumericOr(cell, 0)

\* A plausible slip: the test written as != 0, a negative usage divided by.
DaysLeftMaint_NonZero(hours_left_veh, daily_use_veh) ==
    IF daily_use_veh # 0 THEN Ratio(hours_left_veh, daily_use_veh) ELSE Inf

\* days_left_maint
DaysLeftMaint(hours_left_veh, daily_use_veh) ==
    IF daily_use_veh > 0 THEN Ratio(hours_left_veh, daily_use_veh) ELSE Inf

\* comp_rows_veh: one row per row of the maintenance editor.
CompRowsVeh(edited) ==
    [i \in DOMAIN edited |->
        LET hours_left_veh == HoursLeftVeh(edited[i].hours)
            daily_use_veh == DailyUseVeh(edited[i].usage)
            days_left_maint == DaysLeftMaint(hours_left_veh, daily_use_veh)
        IN  [Z |-> edited[i].Z, Location |-> edited[i].Location,
             HoursToMaintenance |-> hours_left_veh,
             DailyUsage |-> daily_use_veh,
             days_left_maint |-> days_left_maint,
             DaysUntilMaintenance |-> DaysShown(days_left_maint)]]

\* ensure_all_tables: a history table is made with the columns its live
\* table has then, and ts.
HistoryCols(tbl) ==
    (IF tbl = <<>> THEN {"vehicle_id"} \cup AllAmmoCols ELSE DOMAIN tbl[1])
        \cup {"ts"}

\* The widgets of the decisions tool before any edit, the history tables
\* as ensure_all_tables creates them, nothing cached, nothing saved yet.
DecisionsAtDefault ==
    /\ db_vehicles_history = <<>> /\ db_ammo_history = <<>>
    /\ ammo_history_cols = HistoryCols(db_ammo)
    /\ db_requirements = <<>> /\ db_requirements_history = <<>>
    /\ clock = 0
    /\ cached = FALSE
    /\ save_count = 0
    /\ save_args = [table |-> "", rows |-> <<>>, ts |-> 0]
    /\ save_ok = FALSE
    /\ note_count = 0
    /\ note_args = [pluga |-> "", z |-> "", note |-> "", ts |-> 0,
                    ok |-> FALSE]
    /\ load_pc = "idle" /\ veh_read = <<>>
    /\ other_pc = "idle"
    /\ other_save = [table |-> "", rows |-> <<>>, ts |-> 0]
    /\ db_log = {<<db_vehicles, db_ammo>>}
    /\ usage_edit_dec = [c \in Range(relevant_ammo_types_dec) |-> Num(0)]
    /\ analysis_rows_dec = <<>>
    /\ veh_scenario_edits = <<>>
    /\ comp_rows_veh = <<>>
    /\ all_hist_ts = <<>> /\ chosen_ts_hist = <<>>
    /\ df_veh_hist_snap = <<>> /\ df_ammo_hist_snap = <<>>

(***************************************************************************)
(* Shortage calculator, app7.                                              *)
(***************************************************************************)
\* float(row[c]) if row[c] not in ["", None] else 0
\* float(text) raises ValueError unless the text, stripped, is a number.
FloatRaises7(cell) == cell[1] = "text" /\ ~IsFloatText(Strip(cell[2]))

Float7(cell) ==
    IF cell[1] = "num" THEN cell[2]
    ELSE IF cell[1] = "text" /\ IsFloatText(Strip(cell[2]))
         THEN FloatUnits(Strip(cell[2]))
    ELSE 0

\* The loop body raises on this row: some quantity it converts is a text
\* that float() rejects.
RowRaises7(row) ==
    \E c \in AllAmmoCols \cap DOMAIN row : FloatRaises7(row[c])

\* The keys of one shortage_row: a type is a key if the row has the column.
ShrtCols7(row) ==
    {"Pluga", "Z", "Location"} \cup (AllAmmoCols \cap DOMAIN row)
        \cup {combined_triple_name}

\* tank_row's location, or "" when the registry has no such vehicle.
Location7(vdf, sid) ==
    LET tank_row == SelectSeq(vdf, LAMBDA v : v.simon = sid)
    IN  IF tank_row # <<>> THEN tank_row[1].location ELSE ""

\* miss = max(standards[c] - have, 0)
Miss7(row, c) == Max(STANDARDS_AMMO[c] * UNITS - Float7(row[c]), 0)

\* triple_miss = max(triple_std - triple_val, 0)
TripleMiss7(row) ==
    Max(TRIPLE_AMMO_STANDARD * UNITS
          - SeqSum([i \in DOMAIN TRIPLE_AMMO_TYPES |->
                        IF TRIPLE_AMMO_TYPES[i] \in DOMAIN row
                        THEN Float7(row[TRIPLE_AMMO_TYPES[i]]) ELSE 0]), 0)

\* shortage_row = {**meta, **sdict}
ShortageRow7(row, vdf) ==
    [c \in ShrtCols7(row) |->
        CASE c = "Pluga" -> row.pluga
          [] c = "Z" -> row.vehicle_id
          [] c = "Location" -> Location7(vdf, row.vehicle_id)
          [] c \in Range(STANDARDS_KEYS) -> Miss7(row, c)
          [] c \in Range(TRIPLE_AMMO_TYPES) -> Max(TripleMiss7(row), 0)
          [] OTHER -> TripleMiss7(row)]

\* shortage_rows: the loop appends one row per ammo row until a row raises.
ShortageRows7(view, vdf) ==
    LET done == {i \in DOMAIN view :
                    \A k \in 1..i : ~RowRaises7(view[k])}
    IN  [i \in 1..Cardinality(done) |-> ShortageRow7(view[i], vdf)]

\* show_cols (line 140), reached only when shortage_rows[0] exists.
ShowCols7(t, columns) ==
    base_cols_summary \o ShowTypes7(t, columns)
        \o SelectSeq(TRIPLE_AMMO_TYPES, LAMBDA c : c \in columns)
        \o <<combined_triple_name>>

\* shortage_df = pd.DataFrame(shortage_rows)[show_cols]
ShortageDf7(rows, cols) ==
    [i \in DOMAIN rows |-> [c \in Range(cols) |-> rows[i][c]]]

(***************************************************************************)
(* The database contents the runs start from.                              *)
(***************************************************************************)
VehicleIds == <<"1", "2", "3", "4", "5">>

PLUGAS == {"A", "B"}

LOCS == {"North", "South"}

\* The ammo-type selections the model tries (of the select box's options).
TypeSelections8 == {"All", "hetz", combined_triple_name}

TypeSelections7 == {"All", "hetz", "calanit"}

Profiles == {"scenario", "over", "exact"}

\* The holdings of one ammo row, in rounds.  "scenario": spec section 8's
\* vehicle (hetz 1, barzel 10, calanit 10, halul 5, hatzav 0), with a
\* fractional and a missing quantity.  "over": twice every standard, the
\* bundle at 30.  "exact": every standard met exactly, the bundle at 27.
Holdings(profile) ==
    CASE profile = "scenario" ->
            [hetz |-> Num(1 * UNITS), barzel |-> Num(10 * UNITS),
             regular_556 |-> Num(990 * UNITS), mag |-> Num(30 * UNITS - 1),
             nafetiz60 |-> Num(25 * UNITS), teura60 |-> BLANK,
             meducut |-> Num(0), calanit |-> Num(10 * UNITS),
             halul |-> Num(5 * UNITS), hatzav |-> Num(0)]
      [] profile = "over" ->
            [c \in AllAmmoCols |->
                IF c \in Range(STANDARDS_KEYS)
                THEN Num(2 * STANDARDS_AMMO[c] * UNITS)
                ELSE IF c = "calanit" THEN Num(20 * UNITS)
                ELSE IF c = "halul" THEN Num(10 * UNITS) ELSE BLANK]
      [] OTHER ->
            [c \in AllAmmoCols |->
                IF c \in Range(STANDARDS_KEYS)
                THEN Num(STANDARDS_AMMO[c] * UNITS) ELSE Num(9 * UNITS)]

\* The registry: vehicles "1".."k", each placed in a pluga and a location.
Registry(k, place) ==
    [i \in 1..k |->
        [simon |-> <<VehicleIds[i]>>, pluga |-> place[i][1],
         location |-> place[i][2]]]

\* The ledger: one row for every identifier that has a profile, in
\* identifier order; the row's own pluga column follows the registry.
Ledger(hold, reg) ==
    LET present == SelectSeq([i \in 1..MaxVeh |-> i],
                             LAMBDA i : hold[i] # "absent")
    IN  [j \in DOMAIN present |->
            [c \in {"vehicle_id", "pluga"} \cup AllAmmoCols |->
                CASE c = "vehicle_id" -> <<VehicleIds[present[j]]>>
                  [] c = "pluga" -> IF present[j] \in DOMAIN reg
                                    THEN reg[present[j]].pluga ELSE ""
                  [] OTHER -> Holdings(hold[present[j]])[c]]]

\* Where a vehicle may stand: its (pluga, location).
Placements == {<<"A", "North">>, <<"A", "South">>, <<"B", "South">>}

\* Snapshots that vary the placement: "1".."k" placed freely, every
\* identifier up to MaxVeh holding the scenario row.
PlacedSnapshots ==
    UNION {{<<Registry(k, place), [i \in 1..MaxVeh |-> "scenario"]>> :
                place \in [1..k -> Placements]} : k \in 0..MaxVeh}

\* Snapshots that vary the holdings: MaxVeh vehicles standing together,
\* each with a row of some profile or with no row.
StockedSnapshots ==
    {<<Registry(MaxVeh, [i \in 1..MaxVeh |-> <<"A", "North">>]), hold>> :
        hold \in [1..MaxVeh -> Profiles \cup {"absent"}]}

Init ==
    /\ \E snap \in PlacedSnapshots \cup StockedSnapshots :
          /\ db_vehicles = snap[1]
          /\ db_ammo = Ledger(snap[2], snap[1])
    /\ app = "none"
    /\ veh_df = <<>> /\ ammo_df = <<>>
    /\ pluga_sel = "All" /\ loc_sel = "All" /\ z_sel = "All"
    /\ type_sel = "All"
    /\ veh_view = <<>> /\ ammo_view = <<>>
    /\ shortage_rows = <<>> /\ shortage_numeric_rows = <<>>
    /\ final_disp_cols = <<>> /\ shortage_num_df = <<>>
    /\ summary_data = <<>> /\ gauge_pct = <<>>
    /\ DecisionsAtDefault
    /\ triple_standard = TRIPLE_AMMO_STANDARD
    /\ err = ""

\* A rerun follows the change of at most one select box; the first run of
\* a session shows every select box at "All".
OneChange(p, l, z, t) ==
    /\ Cardinality({i \in 1..4 :
            <<p, l, z, t>>[i] # <<pluga_sel, loc_sel, z_sel, type_sel>>[i]})
         <= 1
    /\ app = "none" => <<p, l, z, t>> = <<"All", "All", "All", "All">>

(***************************************************************************)
(* The History tab.  It reads the history tables on every run, never the   *)
(* cache.                                                                  *)
(***************************************************************************)
\* SELECT DISTINCT ts FROM <history table>.
TsOf(hist) == {hist[i].ts : i \in DOMAIN hist}

\* sorted(list(...), reverse=True)
RECURSIVE SortedReverse(_)
SortedReverse(S) ==
    IF S = {} THEN <<>>
    ELSE LET top == CHOOSE x \in S : \A y \in S : y <= x
         IN  <<top>> \o SortedReverse(S \ {top})

\* app8: the snapshot times on offer, those of any of the three histories.
AllHistTs8(veh_hist, ammo_hist, req_hist) ==
    SortedReverse(TsOf(veh_hist) \cup TsOf(ammo_hist) \cup TsOf(req_hist))

\* app7: the snapshot times on offer, those both histories have.
hist_ts7(veh_hist, ammo_hist) ==
    SortedReverse(TsOf(veh_hist) \cap TsOf(ammo_hist))

\* st.selectbox(..., key=...): the value picked while it is on offer, the
\* first option otherwise; <<>> when the box is not drawn.
Selectbox(options, pick) ==
    IF options = <<>> THEN <<>>
    ELSE IF pick # <<>> /\ pick[1] \in Range(options) THEN pick
    ELSE <<options[1]>>

\* The rows of hist WHERE ts = chosen, in the table's order.
RECURSIVE RowsAt(_, _)
RowsAt(hist, ts) ==
    IF hist = <<>> THEN <<>>
    ELSE (IF Head(hist).ts = ts THEN <<Head(hist)>> ELSE <<>>)
            \o RowsAt(Tail(hist), ts)

\* SELECT * FROM <history table> WHERE ts=?, the column ts dropped and, in
\* app8, the identifier column cleaned.  (Every identifier a save wrote
\* came out of clean_id_column, so the cleaning cannot raise here.)
HistSnap8(hist, ts, idcol) ==
    LET rows == RowsAt(hist, ts)
    IN  [i \in DOMAIN rows |->
            [c \in DOMAIN rows[i] \ {"ts"} |->
                IF c = idcol THEN _clean_val(rows[i][c]) ELSE rows[i][c]]]

\* The tab as app8 draws it, the select box last left at pick.
HistoryTab8(pick) ==
    \E offered \in {AllHistTs8(db_vehicles_history, db_ammo_history,
                               db_requirements_history)} :
    \E chosen \in {Selectbox(offered, pick)} :
        /\ all_hist_ts' = offered
        /\ chosen_ts_hist' = chosen
        /\ df_veh_hist_snap' =
              IF chosen # <<>> /\ chosen[1] \in TsOf(db_vehicles_history)
              THEN HistSnap8(db_vehicles_history, chosen[1], "simon")
              ELSE <<>>
        /\ df_ammo_hist_snap' =
              IF chosen # <<>> /\ chosen[1] \in TsOf(db_ammo_history)
              THEN HistSnap8(db_ammo_history, chosen[1], "vehicle_id")
              ELSE <<>>

\* A run that an exception ended before the tab: nothing of it is drawn.
NoHistoryTab(pick) ==
    /\ all_hist_ts' = <<>>
    /\ chosen_ts_hist' = pick
    /\ df_veh_hist_snap' = <<>> /\ df_ammo_hist_snap' = <<>>

(***************************************************************************)
(* One run of app8.py with the select boxes at (p, l, z, t) and the two    *)
(* editors of the decisions tool holding usage and edits.  Each local of   *)
(* the script is bound once, by \E over the singleton of its value.        *)
(***************************************************************************)
RunFrom8(vdf, adf, p, l, z, t, usage, edits, pick) ==
    /\ \E vview \in {VehView(vdf, p, l, z)} :
       \E aview \in {AmmoView8(adf, vview)} :
       \E num_rows \in {ShortageNumericRows8(aview, vdf)} :
       \E cols \in {FinalDispCols8(num_rows, t)} :
       \E summary \in {Summary8(aview, vview)} :
       \E gauges \in {IF Len(vview) > 0 /\ aview # <<>>
                      THEN GaugePcts8(aview, Len(vview)) ELSE <<>>} :
       \E failed \in {(\E i \in DOMAIN summary :
                            summary[i].short_percent.den = 0)
                        \/ (\E i \in DOMAIN gauges : gauges[i].den = 0)} :
        /\ p \in {"All"} \cup PlugaOptions(vdf)
        /\ l \in {"All"} \cup LocOptions(vdf)
        /\ z \in {"All"} \cup ZOptions(vdf)
        /\ app' = "app8"
        /\ veh_df' = vdf /\ ammo_df' = adf
        /\ pluga_sel' = p /\ loc_sel' = l /\ z_sel' = z /\ type_sel' = t
        /\ veh_view' = vview /\ ammo_view' = aview
        /\ shortage_rows' = ShortageRows8(aview, vdf)
        /\ shortage_numeric_rows' = num_rows
        /\ final_disp_cols' = cols
        /\ shortage_num_df' = ShortageNumDf8(num_rows, cols)
        /\ summary_data' = summary
        /\ gauge_pct' = gauges
        /\ err' = IF failed THEN "ZeroDivisionError" ELSE ""
        /\ usage_edit_dec' = usage
        /\ veh_scenario_edits' = edits
        /\ analysis_rows_dec' = IF failed THEN <<>>
                                ELSE AnalysisRowsDec(adf, usage)
        /\ comp_rows_veh' = IF failed THEN <<>>
                            ELSE CompRowsVeh(EditedVehScenarioDec(vdf, edits))
        /\ IF failed THEN NoHistoryTab(pick) ELSE HistoryTab8(pick)
        /\ UNCHANGED triple_standard

\* The tables and the record of the saves, left alone by a run.
store_vars ==
    <<db_vehicles, db_ammo, db_vehicles_history, db_ammo_history,
      ammo_history_cols, db_requirements, db_requirements_history, clock,
      save_count, save_args, save_ok, note_count, note_args>>

\* The steps of a load and of another session's save, and the record of
\* the save points: left alone by a run that is one step.
conc_vars == <<load_pc, veh_read, other_pc, other_save, db_log>>

\* A run that ends in load_data (line 160): the exception leaves nothing
\* in the cache, no widget is drawn and nothing is computed.
LoadFailed8 ==
    /\ app' = "app8"
    /\ err' = "OverflowError"
    /\ veh_df' = <<>> /\ ammo_df' = <<>>
    /\ veh_view' = <<>> /\ ammo_view' = <<>>
    /\ shortage_rows' = <<>> /\ shortage_numeric_rows' = <<>>
    /\ final_disp_cols' = <<>> /\ shortage_num_df' = <<>>
    /\ summary_data' = <<>> /\ gauge_pct' = <<>>
    /\ analysis_rows_dec' = <<>> /\ comp_rows_veh' = <<>>
    /\ NoHistoryTab(chosen_ts_hist)
    /\ UNCHANGED <<pluga_sel, loc_sel, z_sel, type_sel, usage_edit_dec,
                   veh_scenario_edits, triple_standard, cached>>

\* A run from the top: load_data answers from st.cache_data when it holds
\* the frames, and reads the two tables otherwise.
Run8(p, l, z, t, usage, edits, pick) ==
    /\ IF ~cached /\ LoadRaises8(db_vehicles, db_ammo)
       THEN /\ <<p, l, z, t>> = <<pluga_sel, loc_sel, z_sel, type_sel>>
            /\ pick = chosen_ts_hist
            /\ LoadFailed8
       ELSE /\ \E vdf \in {IF cached THEN veh_df
                            ELSE LoadVehicles8(db_vehicles)} :
               \E adf \in {IF cached THEN ammo_df
                            ELSE LoadAmmo8(db_ammo)} :
                  RunFrom8(vdf, adf, p, l, z, t, usage, edits, pick)
            /\ cached' = TRUE
    /\ UNCHANGED <<store_vars, conc_vars>>

\* A rerun after a select box change (or none).
Rerun8(p, l, z, t) ==
    /\ app \in {"none", "app8"}
    /\ OneChange(p, l, z, t)
    /\ Run8(p, l, z, t, usage_edit_dec, veh_scenario_edits, chosen_ts_hist)

\* A rerun after the Daily Usage cell of one ammo type was edited.
EditUsage8(atype, cell) ==
    /\ app = "app8"
    /\ Run8(pluga_sel, loc_sel, z_sel, type_sel,
            [usage_edit_dec EXCEPT ![atype] = cell], veh_scenario_edits,
            chosen_ts_hist)

\* A rerun after the cells of row i of the maintenance editor were edited.
EditVehScenario8(i, hours, usage) ==
    /\ app = "app8"
    /\ i \in DOMAIN veh_df
    /\ Run8(pluga_sel, loc_sel, z_sel, type_sel, usage_edit_dec,
            [j \in DOMAIN veh_scenario_edits \cup {i} |->
                IF j = i THEN [hours |-> hours, usage |-> usage]
                ELSE veh_scenario_edits[j]], chosen_ts_hist)

(***************************************************************************)
(* app8 save_with_history and the two save buttons.  DataFrame.to_sql      *)
(* commits at the end of every call and the DROP of if_exists="replace"    *)
(* runs outside any transaction, so "with cnx:" rolls back only the        *)
(* statement that failed: what the earlier statements wrote stays.         *)
(***************************************************************************)
\* The characters of a text the model knows (the inverse of Text).
KnownTexts ==
    {<<>>} \cup {<<VehicleIds[i]>> : i \in DOMAIN VehicleIds}

Chars(s) == CHOOSE x \in KnownTexts : Text(x) = s

\* DataFrame.to_sql: the rows of a frame as the table stores them.
ToSql(df) ==
    [i \in DOMAIN df |->
        [c \in DOMAIN df[i] |->
            IF c \in {"simon", "vehicle_id"} THEN Chars(df[i][c])
            ELSE IF c \in AllAmmoCols THEN Num(df[i][c])
            ELSE df[i][c]]]

\* df_copy: the rows with the column ts.
Stamp(rows, ts) ==
    [i \in DOMAIN rows |->
        [c \in DOMAIN rows[i] \cup {"ts"} |->
            IF c = "ts" THEN ts ELSE rows[i][c]]]

\* to_sql(history_table_name, if_exists="replace"): what a save that
\* overwrote the history would leave.
HistoryAppend_Replaces(hist, rows, ts) == Stamp(rows, ts)

\* to_sql(history_table_name, if_exists="append").
HistoryAppend(hist, rows, ts) == hist \o Stamp(rows, ts)

\* The append raises sqlite3.OperationalError when the frame has a column
\* the history table lacks.
ColumnsFit(rows, cols) == \A i \in DOMAIN rows : DOMAIN rows[i] \cup {"ts"} \subseteq cols

\* Where a save may stop on a sqlite3.Error: nowhere, in the INSERT into
\* the live table (after DROP and CREATE), in the append to the history.
FailPoints == {"none", "insert", "append"}

\* The live table after the call.
LiveAfter(rows, fail) == IF fail = "insert" THEN <<>> ELSE rows

\* The history table after the call.
HistoryAfter(hist, rows, ts, fail) ==
    IF fail = "none" THEN HistoryAppend(hist, rows, ts) ELSE hist

\* What the data editor may hand to the save: the frame as loaded, without
\* its last row, or with its first row moved.
EditedVeh(vdf) ==
    {vdf} \cup (IF vdf = <<>> THEN {}
                ELSE {SubSeq(vdf, 1, Len(vdf) - 1),
                      [vdf EXCEPT ![1].location = "South"]})

\* The same for the ammo editor: the first row's hetz set to 0.
EditedAmmo(adf) ==
    {adf} \cup (IF adf = <<>> THEN {}
                ELSE {SubSeq(adf, 1, Len(adf) - 1),
                      [adf EXCEPT ![1].hetz = 0]})

\* A plausible slip: the successful save reruns without clearing the cache.
AfterSave8_KeepsCache(fail) ==
    IF fail = "none"
    THEN UNCHANGED <<cached, app, veh_df, ammo_df, pluga_sel, loc_sel, z_sel,
                     type_sel, veh_view, ammo_view, shortage_rows,
                     shortage_numeric_rows, final_disp_cols, shortage_num_df,
                     summary_data, gauge_pct, usage_edit_dec,
                     analysis_rows_dec, veh_scenario_edits, comp_rows_veh,
                     all_hist_ts, chosen_ts_hist, df_veh_hist_snap,
                     df_ammo_hist_snap, err, triple_standard>>
    ELSE /\ RunFrom8(veh_df, ammo_df, pluga_sel, loc_sel, z_sel, type_sel,
                     usage_edit_dec, veh_scenario_edits, chosen_ts_hist)
         /\ UNCHANGED cached

\* The rest of a button run: on success st.cache_data.clear() and
\* st.rerun(), which ends the run; on failure st.error, and the script
\* goes on to the other tabs with the frames it loaded.
AfterSave8(fail) ==
    IF fail = "none"
    THEN /\ cached' = FALSE
         /\ UNCHANGED <<app, veh_df, ammo_df, pluga_sel, loc_sel, z_sel,
                        type_sel, veh_view, ammo_view, shortage_rows,
                        shortage_numeric_rows, final_disp_cols,
                        shortage_num_df, summary_data, gauge_pct,
                        usage_edit_dec, analysis_rows_dec,
                        veh_scenario_edits, comp_rows_veh, all_hist_ts,
                        chosen_ts_hist, df_veh_hist_snap, df_ammo_hist_snap,
                        err, triple_standard>>
    ELSE /\ RunFrom8(veh_df, ammo_df, pluga_sel, loc_sel, z_sel, type_sel,
                     usage_edit_dec, veh_scenario_edits, chosen_ts_hist)
         /\ UNCHANGED cached

\* The button "Save Vehicle Changes": save_with_history(edited_veh,
\* "vehicles", "vehicles_history", conn) at time ts.
SaveVehicles8(edited, ts, fail) ==
    /\ app = "app8" /\ cached /\ load_pc = "idle"
    /\ save_count < MaxSaves
    /\ \E rows \in {ToSql(edited)} :
        /\ db_vehicles' = LiveAfter(rows, fail)
        /\ db_vehicles_history' =
                HistoryAfter(db_vehicles_history, rows, ts, fail)
        /\ save_args' = [table |-> "vehicles", rows |-> rows, ts |-> ts]
    /\ clock' = ts
    /\ save_count' = save_count + 1
    /\ save_ok' = (fail = "none")
    /\ UNCHANGED <<db_ammo, db_ammo_history, ammo_history_cols, load_pc,
                   veh_read, other_pc, other_save, db_requirements,
                   db_requirements_history, note_count, note_args>>
    /\ db_log' = IF fail = "none"
                 THEN db_log \cup {<<db_vehicles', db_ammo'>>} ELSE db_log
    /\ AfterSave8(fail)

\* The button "Save Ammo Changes": save_with_history(edited_ammo, "ammo",
\* "ammo_history", conn) at time ts.
SaveAmmo8(edited, ts, fail) ==
    /\ app = "app8" /\ cached /\ load_pc = "idle"
    /\ save_count < MaxSaves
    /\ \E rows \in {ToSql(edited)} :
        /\ fail = "none" => ColumnsFit(rows, ammo_history_cols)
        /\ db_ammo' = LiveAfter(rows, fail)
        /\ db_ammo_history' = HistoryAfter(db_ammo_history, rows, ts, fail)
        /\ save_args' = [table |-> "ammo", rows |-> rows, ts |-> ts]
    /\ clock' = ts
    /\ save_count' = save_count + 1
    /\ save_ok' = (fail = "none")
    /\ UNCHANGED <<db_vehicles, db_vehicles_history, ammo_history_cols, load_pc,
                   veh_read, other_pc, other_save, db_requirements,
                   db_requirements_history, note_count, note_args>>
    /\ db_log' = IF fail = "none"
                 THEN db_log \cup {<<db_vehicles', db_ammo'>>} ELSE db_log
    /\ AfterSave8(fail)

(***************************************************************************)
(* Two sessions of app8.  init_connection hands every session the same     *)
(* connection (check_same_thread=False) and st.cache_data is shared, but   *)
(* each session's script runs in a thread of its own: load_data's two      *)
(* SELECTs and the statements of a save in another session interleave.     *)
(***************************************************************************)
\* This session's load_data on an empty cache, first SELECT: the vehicles.
BeginLoad8 ==
    /\ app = "app8" /\ ~cached /\ load_pc = "idle"
    /\ load_pc' = "read_veh"
    /\ veh_read' = db_vehicles
    /\ UNCHANGED <<store_vars, cached, other_pc, other_save, db_log, app,
                   veh_df, ammo_df, pluga_sel, loc_sel, z_sel, type_sel,
                   veh_view, ammo_view, shortage_rows, shortage_numeric_rows,
                   final_disp_cols, shortage_num_df, summary_data, gauge_pct,
                   usage_edit_dec, analysis_rows_dec, veh_scenario_edits,
                   comp_rows_veh, all_hist_ts, chosen_ts_hist,
                   df_veh_hist_snap, df_ammo_hist_snap, err, triple_standard>>

\* The second SELECT, the ammo, and the rest of the run.
FinishRun8 ==
    /\ load_pc = "read_veh"
    /\ \E vdf \in {LoadVehicles8(veh_read)} :
       \E adf \in {LoadAmmo8(db_ammo)} :
          RunFrom8(vdf, adf, "All", "All", "All", "All", usage_edit_dec,
                   veh_scenario_edits, chosen_ts_hist)
    /\ cached' = TRUE
    /\ load_pc' = "idle"
    /\ UNCHANGED <<store_vars, veh_read, other_pc, other_save, db_log>>

\* What another session's step leaves alone in this session.
session_vars ==
    <<app, veh_df, ammo_df, pluga_sel, loc_sel, z_sel, type_sel, veh_view,
      ammo_view, shortage_rows, shortage_numeric_rows, final_disp_cols,
      shortage_num_df, summary_data, gauge_pct, usage_edit_dec,
      analysis_rows_dec, veh_scenario_edits, comp_rows_veh, all_hist_ts,
      chosen_ts_hist, df_veh_hist_snap, df_ammo_hist_snap, err, load_pc,
      veh_read, save_args, save_ok, ammo_history_cols, db_requirements,
      db_requirements_history, note_count, note_args, triple_standard>>

\* Another session's button run starts: load_data answers from the cache,
\* the data editor returns the edited grid.
OtherClick8(table, edited) ==
    /\ app = "app8" /\ cached /\ other_pc = "idle"
    /\ save_count < MaxSaves
    /\ save_count' = save_count + 1
    /\ other_pc' = "clicked"
    /\ other_save' = [table |-> table, rows |-> ToSql(edited), ts |-> 0]
    /\ UNCHANGED <<db_vehicles, db_ammo, db_vehicles_history,
                   db_ammo_history, clock, cached, db_log, session_vars>>

\* Its save_with_history takes ts, and to_sql(if_exists="replace") drops
\* and re-creates the live table.
OtherCreate8(ts) ==
    /\ other_pc = "clicked"
    /\ other_pc' = "created"
    /\ other_save' = [other_save EXCEPT !.ts = ts]
    /\ clock' = ts
    /\ IF other_save.table = "vehicles"
       THEN db_vehicles' = <<>> /\ UNCHANGED db_ammo
       ELSE db_ammo' = <<>> /\ UNCHANGED db_vehicles
    /\ UNCHANGED <<db_vehicles_history, db_ammo_history, save_count, cached,
                   db_log, session_vars>>

\* to_sql inserts the rows into the live table and commits.
OtherInsert8 ==
    /\ other_pc = "created"
    /\ other_pc' = "inserted"
    /\ IF other_save.table = "vehicles"
       THEN db_vehicles' = other_save.rows /\ UNCHANGED db_ammo
       ELSE db_ammo' = other_save.rows /\ UNCHANGED db_vehicles
    /\ db_log' = db_log \cup {<<db_vehicles', db_ammo'>>}
    /\ UNCHANGED <<db_vehicles_history, db_ammo_history, clock, save_count,
                   cached, other_save, session_vars>>

\* The append to the history; the save returns True and the button run
\* clears st.cache_data.
OtherAppend8 ==
    /\ other_pc = "inserted"
    /\ other_pc' = "idle"
    /\ IF other_save.table = "vehicles"
       THEN /\ db_vehicles_history' =
                   HistoryAppend(db_vehicles_history, other_save.rows,
                                 other_save.ts)
            /\ UNCHANGED db_ammo_history
       ELSE /\ db_ammo_history' =
                   HistoryAppend(db_ammo_history, other_save.rows,
                                 other_save.ts)
            /\ UNCHANGED db_vehicles_history
    /\ cached' = FALSE
    /\ UNCHANGED <<db_vehicles, db_ammo, clock, save_count, other_save,
                   db_log, session_vars>>

(***************************************************************************)
(* One run of app7.py with the select boxes at (p, l, z, t).  The run ends *)
(* in the summary tab: line 140 reads shortage_rows[0] (IndexError when    *)
(* there is no row), and line 156 evaluates the undefined name col when    *)
(* shortage_df is not empty (NameError).                                   *)
(***************************************************************************)
Rerun7(p, l, z, t) ==
    /\ app \in {"none", "app7"}
    /\ OneChange(p, l, z, t)
    /\ \E vdf \in {IF cached THEN veh_df ELSE LoadVehicles7(db_vehicles)} :
       \E adf \in {IF cached THEN ammo_df ELSE LoadAmmo7(db_ammo)} :
       \E vview \in {VehView7(vdf, p, l, z)} :
       \E aview \in {AmmoFiltered7(adf, vview)} :
       \E rows \in {ShortageRows7(aview, vdf)} :
       \E columns \in {IF adf = <<>> THEN AllAmmoCols ELSE DOMAIN adf[1]} :
       \E raised \in {\E i \in DOMAIN aview : RowRaises7(aview[i])} :
        /\ p \in {"All"} \cup PlugaOptions7(vdf)
        /\ t \in {"All"} \cup (Range(all_types7) \cap columns)
        /\ l \in {"All"} \cup LocOptions7(vdf)
        /\ z \in {"All"} \cup ZOptions7(vdf)
        /\ app' = "app7"
        /\ veh_df' = vdf /\ ammo_df' = adf
        /\ pluga_sel' = p /\ loc_sel' = l /\ z_sel' = z /\ type_sel' = t
        /\ veh_view' = vview /\ ammo_view' = aview
        /\ shortage_rows' = rows
        /\ shortage_numeric_rows' = <<>>
        /\ final_disp_cols' = IF raised \/ rows = <<>> THEN <<>>
                              ELSE ShowCols7(t, columns)
        /\ shortage_num_df' = IF raised \/ rows = <<>> THEN <<>>
                              ELSE ShortageDf7(rows, ShowCols7(t, columns))
        /\ summary_data' = <<>>
        /\ gauge_pct' = <<>>
        /\ err' = IF raised THEN "ValueError"
                  ELSE IF rows = <<>> THEN "IndexError" ELSE "NameError"
        /\ cached' = TRUE
        /\ NoHistoryTab(<<>>)
        /\ UNCHANGED <<store_vars, conc_vars, usage_edit_dec,
                       analysis_rows_dec, veh_scenario_edits, comp_rows_veh,
                       triple_standard>>

(***************************************************************************)
(* app8, the Requirements tab: the button "Save Note".  The statements run *)
(* inside "with conn:", which commits when the block ends and rolls back   *)
(* when a statement raises; sqlite3 opens the transaction at the first     *)
(* INSERT or UPDATE.                                                       *)
(***************************************************************************)
\* pluga_options_notes_tab and z_options_notes_tab: the values of the
\* vehicles frame, the empty text among them.
PlugaOptionsNotes(vdf) == {vdf[i].pluga : i \in DOMAIN vdf}
ZOptionsNotes(vdf) == {vdf[i].simon : i \in DOMAIN vdf}

\* SELECT id FROM requirements WHERE pluga=? AND z=?
ExistingNoteReq(req, pluga, z) ==
    {i \in DOMAIN req : req[i].pluga = pluga /\ req[i].z = z}

\* A plausible slip: every history row tagged as an update.
UpdateType_AlwaysUpdated(existing) == "Requirement Updated"

\* history_update_type_req
UpdateType(existing) ==
    IF existing # {} THEN "Requirement Updated" ELSE "Requirement Added"

\* id INTEGER PRIMARY KEY AUTOINCREMENT: one more than the largest so far.
NextId(tbl) ==
    IF tbl = <<>> THEN 1
    ELSE 1 + (CHOOSE m \in {tbl[i].id : i \in DOMAIN tbl} :
                 \A i \in DOMAIN tbl : tbl[i].id <= m)

\* The UPDATE of the pair's rows, or the INSERT of a new row.
RequirementsWrite(req, pluga, z, note, ts) ==
    IF ExistingNoteReq(req, pluga, z) # {}
    THEN [i \in DOMAIN req |->
            IF i \in ExistingNoteReq(req, pluga, z)
            THEN [req[i] EXCEPT !.commander_note = note, !.last_updated = ts]
            ELSE req[i]]
    ELSE Append(req, [id |-> NextId(req), pluga |-> pluga, z |-> z,
                      commander_note |-> note, last_updated |-> ts])

\* The INSERT INTO requirements_history.
RequirementsHistoryWrite(hist, req, pluga, z, note, ts) ==
    Append(hist, [id |-> NextId(hist), pluga |-> pluga, z |-> z,
                  commander_note |-> note,
                  update_type |-> UpdateType(ExistingNoteReq(req, pluga, z)),
                  updated_at |-> ts, ts |-> ts])

\* Where the block may stop on a sqlite3.Error: nowhere, in the UPDATE or
\* INSERT, in the INSERT into the history.
NoteFailPoints == {"none", "write", "history"}

\* The texts the commander types.
NOTES == {"refuel", "repair"}

\* A click on "Save Note" with the two select boxes at (pluga, z) and the
\* text area holding note, at time ts.  The tabs before this one are drawn
\* first, from the cached frames; the tab is reached only when none of
\* them raised.  An empty selection ends in st.error before any statement;
\* a failure rolls the block back; a success clears st.cache_data and
\* st.rerun() ends the run.
SaveNote8(pluga, z, note, ts, fail) ==
    /\ app = "app8" /\ cached /\ load_pc = "idle" /\ err = ""
    /\ note_count < MaxNotes
    /\ pluga \in PlugaOptionsNotes(veh_df) /\ z \in ZOptionsNotes(veh_df)
    /\ RunFrom8(veh_df, ammo_df, pluga_sel, loc_sel, z_sel, type_sel,
                usage_edit_dec, veh_scenario_edits, chosen_ts_hist)
    /\ note_count' = note_count + 1
    /\ IF pluga = "" \/ z = ""
       THEN UNCHANGED <<db_requirements, db_requirements_history, clock,
                        note_args, cached>>
       ELSE /\ clock' = ts
            /\ note_args' = [pluga |-> pluga, z |-> z, note |-> note,
                             ts |-> ts, ok |-> fail = "none"]
            /\ cached' = (fail # "none")
            /\ IF fail = "none"
               THEN /\ db_requirements' =
                         RequirementsWrite(db_requirements, pluga, z, note,
                                           ts)
                    /\ db_requirements_history' =
                         RequirementsHistoryWrite(db_requirements_history,
                                                  db_requirements, pluga, z,
                                                  note, ts)
               ELSE UNCHANGED <<db_requirements, db_requirements_history>>
    /\ UNCHANGED <<db_vehicles, db_ammo, db_vehicles_history,
                   db_ammo_history, ammo_history_cols, save_count, save_args,
                   save_ok, conc_vars>>

\* A rerun after another snapshot time was picked in the History tab.
SelectHistory8(ts) ==
    /\ app = "app8" /\ load_pc = "idle"
    /\ ts \in Range(all_hist_ts)
    /\ Run8(pluga_sel, loc_sel, z_sel, type_sel, usage_edit_dec,
            veh_scenario_edits, <<ts>>)

\* The server is stopped and one of the two scripts is started on the same
\* database file: a new process, with an empty cache and no session.
Restart ==
    /\ app # "none" /\ load_pc = "idle" /\ other_pc = "idle"
    /\ app' = "none"
    /\ cached' = FALSE
    /\ veh_df' = <<>> /\ ammo_df' = <<>>
    /\ pluga_sel' = "All" /\ loc_sel' = "All" /\ z_sel' = "All"
    /\ type_sel' = "All"
    /\ veh_view' = <<>> /\ ammo_view' = <<>>
    /\ shortage_rows' = <<>> /\ shortage_numeric_rows' = <<>>
    /\ final_disp_cols' = <<>> /\ shortage_num_df' = <<>>
    /\ summary_data' = <<>> /\ gauge_pct' = <<>>
    /\ usage_edit_dec' = [c \in Range(relevant_ammo_types_dec) |-> Num(0)]
    /\ analysis_rows_dec' = <<>>
    /\ veh_scenario_edits' = <<>>
    /\ comp_rows_veh' = <<>>
    /\ NoHistoryTab(<<>>)
    /\ err' = ""
    /\ UNCHANGED <<store_vars, conc_vars, triple_standard>>

Next ==
    \/ \E p \in {"All"} \cup PLUGAS, l \in {"All"} \cup LOCS,
          z \in {"All"} \cup Range(VehicleIds), t \in TypeSelections8 :
            Rerun8(p, l, z, t)
    \/ \E p \in {"All"} \cup PLUGAS, l \in {"All"} \cup LOCS,
          z \in {"All"} \cup Range(VehicleIds), t \in TypeSelections7 :
            Rerun7(p, l, z, t)

Spec == Init /\ [][Next]_vars

(***************************************************************************)
(* Identifier texts.  The same runs, started from tables whose identifier  *)
(* cells hold the texts a spreadsheet import leaves behind: float-looking, *)
(* padded, zero-filled, non-numeric, empty, infinite.                      *)
(***************************************************************************)
IdTexts ==
    {<<>>, <<"7">>, <<"4", "2">>, <<"4", "2", ".", "0">>, <<" ", "4", "2">>,
     <<"0", "4", "2">>, <<"4", "2", ".">>, <<"+", "4", "2">>,
     <<"A", "4", "2">>, <<"4", ".", "2">>, <<"-", "0", ".", "5">>,
     <<"7", ".", "5">>, <<"i", "n", "f">>}

\* One registry vehicle with the identifier text a next to vehicle "7", and
\* one ammo row with the identifier text b.
IdRegistry(a) ==
    <<[simon |-> a, pluga |-> "A", location |-> "North"],
      [simon |-> <<"7">>, pluga |-> "B", location |-> "South"]>>

IdLedger(b) ==
    <<[c \in {"vehicle_id", "pluga"} \cup AllAmmoCols |->
          CASE c = "vehicle_id" -> b
            [] c = "pluga" -> "A"
            [] OTHER -> Holdings("scenario")[c]]>>

InitIds ==
    /\ \E a, b \in IdTexts :
          /\ db_vehicles = IdRegistry(a)
          /\ db_ammo = IdLedger(b)
    /\ app = "none"
    /\ veh_df = <<>> /\ ammo_df = <<>>
    /\ pluga_sel = "All" /\ loc_sel = "All" /\ z_sel = "All"
    /\ type_sel = "All"
    /\ veh_view = <<>> /\ ammo_view = <<>>
    /\ shortage_rows = <<>> /\ shortage_numeric_rows = <<>>
    /\ final_disp_cols = <<>> /\ shortage_num_df = <<>>
    /\ summary_data = <<>> /\ gauge_pct = <<>>
    /\ DecisionsAtDefault
    /\ triple_standard = TRIPLE_AMMO_STANDARD
    /\ err = ""

\* The Z options an identifier text can give rise to, in either script.
IdSelections ==
    {_clean_val(x) : x \in IdTexts} \cup {Text(x) : x \in IdTexts}

NextIds ==
    \/ \E p \in {"All"} \cup PLUGAS, l \in {"All"} \cup LOCS,
          z \in {"All"} \cup IdSelections, t \in TypeSelections8 :
            Rerun8(p, l, z, t)
    \/ \E p \in {"All"} \cup PLUGAS, l \in {"All"} \cup LOCS,
          z \in {"All"} \cup IdSelections, t \in TypeSelections7 :
            Rerun7(p, l, z, t)

SpecIds == InitIds /\ [][NextIds]_vars

(***************************************************************************)
(* Quantity cells.  The same runs, started from an ammo table whose cells  *)
(* hold what SQLite lets a quantity column hold: a number, NULL or empty   *)
(* text, a numeric-looking text, any other text; or that lacks a column.   *)
(***************************************************************************)
CellForms ==
    {Num(1 * UNITS), BLANK, TextCell(<<"1">>), TextCell(<<"1", ".", "5">>),
     TextCell(<<" ", "3">>), TextCell(<<"a", "b", "c">>), TextCell(<<" ">>)}

MissingColumns == {"", "teura60", "hatzav"}

\* Vehicles "1" and "2" standing together.
CellRegistry == Registry(2, [i \in 1..2 |-> <<"A", "North">>])

\* Two ammo rows: the row of vehicle k holds h in hetz and b in calanit,
\* the other row is the scenario row; the table lacks the column `missing`.
CellLedger(k, h, b, missing) ==
    [j \in 1..2 |->
        [c \in ({"vehicle_id", "pluga"} \cup AllAmmoCols) \ {missing} |->
            CASE c = "vehicle_id" -> <<VehicleIds[j]>>
              [] c = "pluga" -> "A"
              [] c = "hetz" /\ j = k -> h
              [] c = "calanit" /\ j = k -> b
              [] OTHER -> Holdings("scenario")[c]]]

InitCells ==
    /\ db_vehicles = CellRegistry
    /\ \E k \in 1..2, h, b \in CellForms, missing \in MissingColumns :
          db_ammo = CellLedger(k, h, b, missing)
    /\ app = "none"
    /\ veh_df = <<>> /\ ammo_df = <<>>
    /\ pluga_sel = "All" /\ loc_sel = "All" /\ z_sel = "All"
    /\ type_sel = "All"
    /\ veh_view = <<>> /\ ammo_view = <<>>
    /\ shortage_rows = <<>> /\ shortage_numeric_rows = <<>>
    /\ final_disp_cols = <<>> /\ shortage_num_df = <<>>
    /\ summary_data = <<>> /\ gauge_pct = <<>>
    /\ DecisionsAtDefault
    /\ triple_standard = TRIPLE_AMMO_STANDARD
    /\ err = ""

SpecCells == InitCells /\ [][Next]_vars

(***************************************************************************)
(* Decisions tool.  app8 sessions in which the cells of the two editors    *)
(* are edited: a number, a cleared cell, a negative number.                *)
(***************************************************************************)
\* The ammo types whose Daily Usage the model edits.
EditedTypes == {"hetz"}

UsageCells == {Num(0), Num(3 * UNITS), Num(UNITS \div 2), Num(-1 * UNITS), BLANK}

HoursCells == {Num(HOURS_DEFAULT * UNITS), Num(7 * UNITS), BLANK}

DailyUseCells == {Num(0), Num(3 * UNITS), Num(-2 * UNITS), BLANK}

InitDecisions ==
    /\ \E profile \in Profiles :
       \E snap \in {s \in StockedSnapshots :
                        \A i \in 1..MaxVeh : s[2][i] = profile} :
          /\ db_vehicles = snap[1]
          /\ db_ammo = Ledger(snap[2], snap[1])
    /\ app = "none"
    /\ veh_df = <<>> /\ ammo_df = <<>>
    /\ pluga_sel = "All" /\ loc_sel = "All" /\ z_sel = "All"
    /\ type_sel = "All"
    /\ veh_view = <<>> /\ ammo_view = <<>>
    /\ shortage_rows = <<>> /\ shortage_numeric_rows = <<>>
    /\ final_disp_cols = <<>> /\ shortage_num_df = <<>>
    /\ summary_data = <<>> /\ gauge_pct = <<>>
    /\ DecisionsAtDefault
    /\ triple_standard = TRIPLE_AMMO_STANDARD
    /\ err = ""

NextDecisions ==
    \/ Rerun8("All", "All", "All", "All")
    \/ \E atype \in EditedTypes, cell \in UsageCells : EditUsage8(atype, cell)
    \/ \E i \in 1..MaxEditRows, hours \in HoursCells, usage \in DailyUseCells :
          EditVehScenario8(i, hours, usage)

SpecDecisions == InitDecisions /\ [][NextDecisions]_vars

(***************************************************************************)
(* Saves.  app8 sessions over two vehicles in which the two grids are      *)
(* saved, while the clock stands or moves on by a second; the ammo table   *)
(* may lack a column, which load_data adds to the frame.                   *)
(***************************************************************************)
SaveProfiles == {"scenario", "exact"}

SaveMissingColumns == {"", "teura60"}

SaveLedger(profile, missing) ==
    LET reg == Registry(2, [i \in 1..2 |-> <<"A", "North">>])
        led == Ledger([i \in 1..MaxVeh |->
                          IF i <= 2 THEN profile ELSE "absent"], reg)
    IN  [i \in DOMAIN led |->
            [c \in DOMAIN led[i] \ {missing} |-> led[i][c]]]

InitSave ==
    /\ \E profile \in SaveProfiles, missing \in SaveMissingColumns :
          /\ db_vehicles = Registry(2, [i \in 1..2 |-> <<"A", "North">>])
          /\ db_ammo = SaveLedger(profile, missing)
    /\ app = "none"
    /\ veh_df = <<>> /\ ammo_df = <<>>
    /\ pluga_sel = "All" /\ loc_sel = "All" /\ z_sel = "All"
    /\ type_sel = "All"
    /\ veh_view = <<>> /\ ammo_view = <<>>
    /\ shortage_rows = <<>> /\ shortage_numeric_rows = <<>>
    /\ final_disp_cols = <<>> /\ shortage_num_df = <<>>
    /\ summary_data = <<>> /\ gauge_pct = <<>>
    /\ DecisionsAtDefault
    /\ triple_standard = TRIPLE_AMMO_STANDARD
    /\ err = ""

NextSave ==
    \/ Rerun8("All", "All", "All", "All")
    \/ \E edited \in EditedVeh(veh_df), ts \in {clock, clock + 1},
          fail \in FailPoints : SaveVehicles8(edited, ts, fail)
    \/ \E edited \in EditedAmmo(ammo_df), ts \in {clock, clock + 1},
          fail \in FailPoints : SaveAmmo8(edited, ts, fail)

SpecSave == InitSave /\ [][NextSave]_vars

(***************************************************************************)
(* The history of one database file.  An app8 session saves the two grids  *)
(* and looks the snapshots up; the server is restarted, with either        *)
(* script.  Every save succeeds.                                           *)
(***************************************************************************)
NextHistory ==
    \/ Rerun8("All", "All", "All", "All")
    \/ /\ app = "app8"
       /\ \E edited \in EditedVeh(veh_df), ts \in {clock, clock + 1} :
             SaveVehicles8(edited, ts, "none")
    \/ /\ app = "app8"
       /\ \E edited \in EditedAmmo(ammo_df), ts \in {clock, clock + 1} :
             SaveAmmo8(edited, ts, "none")
    \/ \E ts \in Range(all_hist_ts) : SelectHistory8(ts)
    \/ Restart
    \/ Rerun7("All", "All", "All", "All")

InitHistory ==
    /\ InitSave
    /\ db_ammo = SaveLedger("exact", "")

SpecHistory == InitHistory /\ [][NextHistory]_vars

(***************************************************************************)
(* Notes.  An app8 session saves notes for the pairs of the registry; a    *)
(* click may fail at either statement.                                     *)
(***************************************************************************)
NextNotes ==
    \/ Rerun8("All", "All", "All", "All")
    \/ \E pluga \in PlugaOptionsNotes(veh_df), z \in ZOptionsNotes(veh_df),
          note \in NOTES, ts \in {clock, clock + 1},
          fail \in NoteFailPoints : SaveNote8(pluga, z, note, ts, fail)
    \/ \E ts \in Range(all_hist_ts) : SelectHistory8(ts)

SpecNotes == InitSave /\ [][NextNotes]_vars

(***************************************************************************)
(* Two sessions.  This session runs, saves a grid and runs again, its      *)
(* load_data in two steps; another session saves a grid it loaded earlier, *)
(* statement by statement.  Every save succeeds.                           *)
(***************************************************************************)
NextConc ==
    \/ load_pc = "idle" /\ Rerun8("All", "All", "All", "All")
    \/ BeginLoad8
    \/ FinishRun8
    \/ \E edited \in EditedVeh(veh_df), ts \in {clock, clock + 1} :
          SaveVehicles8(edited, ts, "none")
    \/ \E edited \in EditedAmmo(ammo_df), ts \in {clock, clock + 1} :
          SaveAmmo8(edited, ts, "none")
    \/ \E edited \in EditedVeh(veh_df) : OtherClick8("vehicles", edited)
    \/ \E edited \in EditedAmmo(ammo_df) : OtherClick8("ammo", edited)
    \/ \E ts \in {clock, clock + 1} : OtherCreate8(ts)
    \/ OtherInsert8
    \/ OtherAppend8

SpecConc == InitSave /\ [][NextConc]_vars

(***************************************************************************)
(* Grown grids.  Both data editors have num_rows="dynamic": a save may     *)
(* carry a row typed in by hand, under any identifier.                     *)
(***************************************************************************)
\* The identifiers typed into a new row: one in use, one new.
NewRowIds == {"1", "3"}

GrownVeh(vdf) ==
    {Append(vdf, [simon |-> id, pluga |-> "B", location |-> "South"]) :
        id \in NewRowIds}

GrownAmmo(adf) ==
    IF adf = <<>> THEN {}
    ELSE {Append(adf, [adf[1] EXCEPT !.vehicle_id = id]) : id \in NewRowIds}

NextGrid ==
    \/ Rerun8("All", "All", "All", "All")
    \/ \E edited \in EditedVeh(veh_df) \cup GrownVeh(veh_df),
          ts \in {clock, clock + 1}, fail \in FailPoints :
            SaveVehicles8(edited, ts, fail)
    \/ \E edited \in EditedAmmo(ammo_df) \cup GrownAmmo(ammo_df),
          ts \in {clock, clock + 1}, fail \in FailPoints :
            SaveAmmo8(edited, ts, fail)

SpecGrid == InitSave /\ [][NextGrid]_vars

(***************************************************************************)
(* Configuration.  app8 sessions started with the bundle standard of the   *)
(* constants section as the source sets it, or set negative.  The script   *)
(* has no statement between the constants and the first use that looks at  *)
(* their values.                                                           *)
(***************************************************************************)
BundleStandards == {TRIPLE_AMMO_STANDARD, -TRIPLE_AMMO_STANDARD}

InitConfig ==
    /\ \E snap \in StockedSnapshots :
          /\ db_vehicles = snap[1]
          /\ db_ammo = Ledger(snap[2], snap[1])
    /\ app = "none"
    /\ veh_df = <<>> /\ ammo_df = <<>>
    /\ pluga_sel = "All" /\ loc_sel = "All" /\ z_sel = "All"
    /\ type_sel = "All"
    /\ veh_view = <<>> /\ ammo_view = <<>>
    /\ shortage_rows = <<>> /\ shortage_numeric_rows = <<>>
    /\ final_disp_cols = <<>> /\ shortage_num_df = <<>>
    /\ summary_data = <<>> /\ gauge_pct = <<>>
    /\ DecisionsAtDefault
    /\ triple_standard \in BundleStandards
    /\ err = ""

NextConfig ==
    \E p \in {"All"} \cup PLUGAS, l \in {"All"} \cup LOCS,
       z \in {"All"} \cup Range(VehicleIds), t \in TypeSelections8 :
        Rerun8(p, l, z, t)

SpecConfig == InitConfig /\ [][NextConfig]_vars

(***************************************************************************)
(* Properties.  The holding of a row is read from the filtered ammo frame  *)
(* of the run: a number in app8, a raw cell (blank counted as 0) in app7.  *)
(***************************************************************************)
Ran8 == app = "app8"

Ran7 == app = "app7"

Holding(cell) == IF Ran8 THEN cell ELSE Float7(cell)

\* The shortage records of the last run.
Records == IF Ran8 THEN shortage_numeric_rows ELSE shortage_rows

Deficit(std, cur) == IF std * UNITS - cur > 0 THEN std * UNITS - cur ELSE 0

\* C1: in every shortage record, the shortage of each independent ammo type
\* equals max(standard - current, 0) on the row's holding, and is never
\* negative.
C1_IndependentShortage ==
    app # "none" =>
        /\ Len(Records) = Len(ammo_view)
        /\ \A i \in DOMAIN Records : \A c \in Range(STANDARDS_KEYS) :
              /\ Records[i][c] = Deficit(STANDARDS_AMMO[c],
                                         Holding(ammo_view[i][c]))
              /\ Records[i][c] >= 0

\* A run whose table holds a row below the hetz standard (shortage of two
\* rounds) and a row above it (shortage 0).
C1_Witness ==
    /\ Ran8
    /\ \E i, j \in DOMAIN Records :
          /\ ammo_view[i].hetz = 1 * UNITS /\ Records[i].hetz = 2 * UNITS
          /\ ammo_view[j].hetz > STANDARDS_AMMO.hetz * UNITS
          /\ Records[j].hetz = 0

\* C2: in every shortage record the three bundle members carry the same
\* shortage, equal to the combined field and to
\* max(27 - (calanit + halul + hatzav), 0) on the row's holdings.
C2_BundleShortage ==
    app # "none" =>
        \A i \in DOMAIN Records :
            LET pooled == Holding(ammo_view[i].calanit)
                            + Holding(ammo_view[i].halul)
                            + Holding(ammo_view[i].hatzav)
            IN  /\ Records[i].calanit = Records[i].halul
                /\ Records[i].halul = Records[i].hatzav
                /\ Records[i].hatzav = Records[i][combined_triple_name]
                /\ Records[i][combined_triple_name]
                     = Deficit(TRIPLE_AMMO_STANDARD, pooled)

\* Holdings 10, 5, 0: bundle current 15, and 12 in all four fields.
C2_Witness ==
    /\ Ran8
    /\ \E i \in DOMAIN Records :
          /\ ammo_view[i].calanit = 10 * UNITS
          /\ ammo_view[i].halul = 5 * UNITS
          /\ ammo_view[i].hatzav = 0
          /\ shortage_rows[i][combined_triple_name].have = 15
          /\ \A c \in Range(TRIPLE_AMMO_TYPES) \cup {combined_triple_name} :
                Records[i][c] = 12 * UNITS

\* A registry row passes the filter when it equals every selection that is
\* not "All" on the selection's field.
Passes(v) ==
    /\ pluga_sel = "All" \/ v.pluga = pluga_sel
    /\ loc_sel = "All" \/ v.location = loc_sel
    /\ z_sel = "All" \/ v.simon = z_sel

\* C3: the filtered vehicles are exactly the registry rows that equal every
\* selection that is not "All"; with every selection "All", the registry.
C3_FilteredVehicles ==
    app # "none" =>
        /\ veh_view = SelectSeq(veh_df, Passes)
        /\ <<pluga_sel, loc_sel, z_sel>> = <<"All", "All", "All">>
              => veh_view = veh_df

\* A run with two selections set that keeps some vehicles and drops others.
C3_Witness ==
    /\ Ran8
    /\ pluga_sel # "All" /\ loc_sel # "All"
    /\ veh_view # <<>>
    /\ Len(veh_view) < Len(veh_df)
    /\ \E i \in DOMAIN veh_df :
          veh_df[i].pluga = pluga_sel /\ veh_df[i].location # loc_sel

\* C4: the filtered ammo rows are exactly the ledger rows whose vehicle
\* identifier is the identifier of a filtered vehicle.
C4_FilteredAmmo ==
    app # "none" =>
        ammo_view =
            SelectSeq(ammo_df,
                      LAMBDA a : \E i \in DOMAIN veh_view :
                                    veh_view[i].simon = a.vehicle_id)

\* A run that keeps the ammo row of a retained vehicle and drops the ammo
\* row of a filtered-out one.
C4_Witness ==
    /\ Ran8
    /\ ammo_view # <<>>
    /\ \E i \in DOMAIN ammo_df, j \in DOMAIN veh_df :
          /\ veh_df[j].simon = ammo_df[i].vehicle_id
          /\ ~Passes(veh_df[j])
          /\ \A k \in DOMAIN ammo_view :
                ammo_view[k].vehicle_id # ammo_df[i].vehicle_id

\* C5: when the filter excludes every vehicle, the filtered ammo is empty
\* and the run completes without an error, with an empty shortage table.
C5_EmptyFilterCompletes ==
    (app # "none" /\ veh_view = <<>>) =>
        /\ ammo_view = <<>>
        /\ err = ""
        /\ Records = <<>> /\ shortage_num_df = <<>>

\* C5, app8 alone: there the run does complete on an empty filter result.
C5_EmptyFilterCompletes8 == Ran8 => C5_EmptyFilterCompletes

\* C6 as claimed: a group of zero vehicles still gets an aggregate record,
\* with total_standard = 0 and shortage_pct = 0.
C6_ZeroVehicleAggregate ==
    (Ran8 /\ veh_view = <<>>) =>
        /\ summary_data # <<>>
        /\ \A i \in DOMAIN summary_data :
              /\ summary_data[i].col_need = 0
              /\ summary_data[i].short_percent.num = 0

\* C6 as amended: a group of zero vehicles gets no aggregate record at all
\* (the tab shows its "no data" note); the run raises no error and no
\* percentage is computed.
C6_ZeroVehicleNoAggregate ==
    (Ran8 /\ veh_view = <<>>) =>
        /\ summary_data = <<>>
        /\ gauge_pct = <<>>
        /\ err = ""

\* A run whose selections (a pluga and a location that no vehicle shares)
\* leave no vehicle of a registry that is not empty.
C6_Witness ==
    /\ Ran8
    /\ veh_df # <<>>
    /\ pluga_sel # "All" /\ loc_sel # "All"
    /\ veh_view = <<>>
    /\ summary_data = <<>>

\* C7: the shortage table is ammo-keyed: one record per filtered ammo row,
\* in the same order, and none for a filtered vehicle without an ammo row.
C7_AmmoKeyed ==
    app # "none" =>
        /\ Len(Records) = Len(ammo_view)
        /\ Len(shortage_num_df) = Len(ammo_view)
        /\ \A i \in DOMAIN Records :
              /\ Records[i]["Z"] = ammo_view[i].vehicle_id
              /\ shortage_num_df[i]["Z"] = ammo_view[i].vehicle_id
        /\ Ran8 => /\ Len(shortage_rows) = Len(ammo_view)
                   /\ \A i \in DOMAIN shortage_rows :
                         shortage_rows[i]["Z"] = ammo_view[i].vehicle_id
        /\ \A j \in DOMAIN veh_view :
              (\A k \in DOMAIN ammo_df :
                    ammo_df[k].vehicle_id # veh_view[j].simon)
                => \A i \in DOMAIN Records :
                      Records[i]["Z"] # veh_view[j].simon

\* A run that keeps two ammo rows and a vehicle that has no ammo row.
C7_Witness ==
    /\ Ran8
    /\ Len(Records) = 2
    /\ \E j \in DOMAIN veh_view :
          \A k \in DOMAIN ammo_df : ammo_df[k].vehicle_id # veh_view[j].simon

\* The filtered group's total holding of one column.
GroupCurrent(c) == SeqSum([j \in DOMAIN ammo_view |-> ammo_view[j][c]])

\* C8: in every aggregate record total_current is the sum of the group's
\* holdings, total_standard the per-vehicle standard times the number of
\* filtered vehicles, and total_shortage max(total_standard -
\* total_current, 0); for the bundle, over the three members pooled.
C8_Aggregate ==
    (Ran8 /\ summary_data # <<>>) =>
        /\ Len(summary_data) = Len(STANDARDS_KEYS) + 1
        /\ \A i \in DOMAIN summary_data :
            LET r == summary_data[i]
                std == IF i <= Len(STANDARDS_KEYS)
                       THEN STANDARDS_AMMO[STANDARDS_KEYS[i]]
                       ELSE TRIPLE_AMMO_STANDARD
                cur == IF i <= Len(STANDARDS_KEYS)
                       THEN GroupCurrent(STANDARDS_KEYS[i])
                       ELSE GroupCurrent("calanit") + GroupCurrent("halul")
                              + GroupCurrent("hatzav")
            IN  /\ r.Type = IF i <= Len(STANDARDS_KEYS)
                            THEN STANDARDS_KEYS[i] ELSE combined_triple_name
                /\ r.col_current = cur
                /\ r.col_need = std * Len(veh_view) * UNITS
                /\ r.Standard = std * Len(veh_view)
                /\ r.col_short = Deficit(std * Len(veh_view), cur)

\* A run over a group with more vehicles than ammo rows and a hetz deficit.
C8_Witness ==
    /\ Ran8
    /\ summary_data # <<>>
    /\ Len(veh_view) > Len(ammo_view)
    /\ summary_data[1].col_short > 0

\* Some filtered vehicle holds more of c than the standard, another less.
OverAndUnder(c) ==
    \E i, j \in DOMAIN ammo_view :
        /\ ammo_view[i][c] > STANDARDS_AMMO[c] * UNITS
        /\ ammo_view[j][c] < STANDARDS_AMMO[c] * UNITS

\* The sum over the group of the per-vehicle shortages of c.
PerVehicleSum(c) == SeqSum([i \in DOMAIN Records |-> Records[i][c]])

\* C9 as claimed: with one vehicle over and another under the standard,
\* the pooled total_shortage differs from the sum of per-vehicle shortages.
C9_PooledDiffers ==
    (Ran8 /\ summary_data # <<>>) =>
        \A i \in DOMAIN STANDARDS_KEYS :
            OverAndUnder(STANDARDS_KEYS[i])
              => summary_data[i].col_short # PerVehicleSum(STANDARDS_KEYS[i])

\* C9 as amended: the same, for a group with no more vehicles than ammo
\* rows (no vehicle of the group lacks its ammo row); the pooled shortage
\* is then smaller than the sum.
C9_PooledDiffersWhenAllHaveRows ==
    (Ran8 /\ summary_data # <<>> /\ Len(veh_view) <= Len(ammo_view)) =>
        \A i \in DOMAIN STANDARDS_KEYS :
            OverAndUnder(STANDARDS_KEYS[i])
              => summary_data[i].col_short < PerVehicleSum(STANDARDS_KEYS[i])

\* A group of three vehicles, each with an ammo row, one over and one under
\* the hetz standard, whose pooled hetz shortage is positive.
C9_Witness ==
    /\ Ran8
    /\ Len(veh_view) = 3 /\ Len(ammo_view) = 3
    /\ OverAndUnder("hetz")
    /\ summary_data[1].col_short > 0
    /\ summary_data[1].col_short < PerVehicleSum("hetz")

\* C10: in every aggregate record shortage_pct is 0 when total_standard is
\* 0 and total_shortage / total_standard * 100 otherwise (shown rounded to
\* one decimal); no aggregate computation divides by zero.
C10_ShortagePct ==
    Ran8 =>
        /\ err # "ZeroDivisionError"
        /\ \A i \in DOMAIN gauge_pct : gauge_pct[i].den # 0
        /\ \A i \in DOMAIN summary_data :
            LET r == summary_data[i]
                pct == r.short_percent
            IN  /\ pct.den # 0
                /\ r.col_need = 0 => pct.num = 0
                /\ r.col_need # 0 =>
                      pct.num = r.col_short * 100 /\ pct.den = r.col_need
                /\ 2 * (r.ShortagePct * pct.den - 10 * pct.num) <= pct.den
                /\ 2 * (10 * pct.num - r.ShortagePct * pct.den) <= pct.den

\* One vehicle holding 1 of the 3 hetz: shortage 2 of 3, shown as 66.7%.
C10_Witness ==
    /\ Ran8
    /\ \E i \in DOMAIN summary_data :
          /\ summary_data[i].Standard = 3 /\ summary_data[i].Shortage = 2
          /\ summary_data[i].ShortagePct = 667

\* The text x denotes the integer n: the plain integer text or a
\* float-looking one ("42", "42.0", "42.00").
DenotesInteger(x, n) ==
    LET s == x
        dots == {i \in DOMAIN s : s[i] = "."}
        whole == IF dots = {} THEN s
                 ELSE SubSeq(s, 1, (CHOOSE i \in dots : TRUE) - 1)
    IN  /\ whole = n
        /\ \A i \in DOMAIN s : i > Len(whole) + 1 => s[i] = "0"
        /\ dots # {} => Len(s) > Len(whole) + 1

\* The registry row j and the ammo row i were joined by the last run: the
\* ammo row passed the filter join and its record carries the registry
\* row's location.
Joined(i, j) ==
    /\ Len(ammo_view) = Len(db_ammo)
    /\ Len(Records) = Len(db_ammo)
    /\ Records[i]["Location"] = db_vehicles[j].location

\* C11: a vehicle recorded as "42.0" in one table and as "42" in the other
\* is the same vehicle for the filter join and the registry lookup; the
\* float-looking text "42.0" is canonicalized to "42".
C11_FloatTextJoins ==
    (app # "none" /\ pluga_sel = "All" /\ loc_sel = "All" /\ z_sel = "All")
      => \A i \in DOMAIN db_ammo, j \in DOMAIN db_vehicles :
            (/\ DenotesInteger(db_ammo[i].vehicle_id, <<"4", "2">>)
             /\ DenotesInteger(db_vehicles[j].simon, <<"4", "2">>))
              => /\ Joined(i, j)
                 /\ Records[i]["Z"] = "42"

\* C11, app8 alone: there the two texts are joined.
C11_FloatTextJoins8 == Ran8 => C11_FloatTextJoins

\* The loaded ammo row i names a vehicle that the loaded registry lacks.
Orphan(i) == \A j \in DOMAIN veh_df : veh_df[j].simon # ammo_df[i].vehicle_id

\* C12: with every filter at "All", an ammo row whose vehicle is absent
\* from the registry yields a shortage record whose unit and location are
\* the "unknown" marker, and the run raises no error.
C12_OrphanRowUnknown ==
    (app # "none" /\ pluga_sel = "All" /\ loc_sel = "All" /\ z_sel = "All")
      => \A i \in DOMAIN ammo_df :
            Orphan(i) =>
              /\ \E k \in DOMAIN Records :
                    /\ Records[k]["Z"] = ammo_df[i].vehicle_id
                    /\ Records[k]["Location"] \in {"N/A", ""}
              /\ err = ""

\* C12, what the runs do instead: such a row never passes the filter join,
\* so it has no record at all.
C12_OrphanRowDropped ==
    app # "none" =>
        \A i \in DOMAIN ammo_df :
            Orphan(i) =>
              /\ \A k \in DOMAIN ammo_view :
                    ammo_view[k].vehicle_id # ammo_df[i].vehicle_id
              /\ \A k \in DOMAIN Records :
                    Records[k]["Z"] # ammo_df[i].vehicle_id

\* What a raw quantity cell is worth under the claim: its numeric value
\* when it is a number or a numeric-looking text, 0 otherwise.
Worth(row, c) ==
    IF c \notin DOMAIN row THEN 0
    ELSE IF row[c][1] = "num" THEN row[c][2]
    ELSE IF row[c] = TextCell(<<"1">>) THEN 1 * UNITS
    ELSE IF row[c] = TextCell(<<"1", ".", "5">>) THEN UNITS + UNITS \div 2
    ELSE IF row[c] = TextCell(<<" ", "3">>) THEN 3 * UNITS
    ELSE 0

\* C13: coercion of a quantity never raises: a missing column, an empty
\* text, NULL or a text that is no number counts as 0 and a numeric-looking
\* text as its value, for every ammo type of every row the run computes on.
C13_CoercionTotal ==
    app # "none" =>
        /\ err # "ValueError"
        /\ Len(Records) = Len(ammo_view)
        /\ \A i \in DOMAIN Records :
            \E k \in DOMAIN db_ammo :
                /\ db_ammo[k].vehicle_id = <<Records[i]["Z"]>>
                /\ Records[i].hetz
                     = Deficit(STANDARDS_AMMO.hetz, Worth(db_ammo[k], "hetz"))
                /\ Records[i][combined_triple_name]
                     = Max(TRIPLE_AMMO_STANDARD * UNITS
                             - Worth(db_ammo[k], "calanit")
                             - Worth(db_ammo[k], "halul")
                             - Worth(db_ammo[k], "hatzav"), 0)

\* C13, app8 alone: to_numeric(errors='coerce').fillna(0.0) is total.
C13_CoercionTotal8 == Ran8 => C13_CoercionTotal

\* The filter of the run and what the run computed for the shortage table.
Selections == <<pluga_sel, loc_sel, z_sel, type_sel>>

ShortageTables ==
    <<veh_view, ammo_view, shortage_rows, shortage_numeric_rows,
      final_disp_cols, shortage_num_df>>

\* C14: a run is a read-only transform: it leaves the vehicles table and
\* the ammo table unchanged, and a second run on the same tables with the
\* same filter yields the same loaded frames and the same shortage tables.
C14_ReadOnlyIdempotent ==
    [][/\ db_vehicles' = db_vehicles
       /\ db_ammo' = db_ammo
       /\ (app # "none" /\ Selections' = Selections)
            => /\ veh_df' = veh_df /\ ammo_df' = ammo_df
               /\ ShortageTables' = ShortageTables]_vars

\* A state only a second run reaches (the first run of a session has every
\* filter at "All"), with a shortage table that is not empty.
C14_Witness ==
    /\ Ran8
    /\ pluga_sel # "All"
    /\ Len(shortage_numeric_rows) >= 2
    /\ db_ammo # <<>>

\* What an editor cell is worth: its number, or d when it was cleared.
CellOr(cell, d) == IF cell[1] = "num" THEN cell[2] ELSE d

\* The shown value is the quotient a / b rounded to one decimal.
ShownRounds(shown, a, b) ==
    /\ shown[1] = "num"
    /\ 2 * (shown[2] * b - 10 * a) <= b
    /\ 2 * (10 * a - shown[2] * b) <= b

\* C15: for every ammo type, with S the total stock and r the daily usage
\* entered, the depletion projection is S / r when r > 0 (shown to one
\* decimal) and the unbounded mark, not a number, when r = 0; the run
\* raises no error.
C15_Depletion ==
    Ran8 =>
        /\ err = ""
        /\ Len(analysis_rows_dec) = Len(SORTED_TYPES)
        /\ \A i \in DOMAIN analysis_rows_dec :
            LET row == analysis_rows_dec[i]
                S == SeqSum([k \in DOMAIN ammo_df |-> ammo_df[k][SORTED_TYPES[i]]])
                r == CellOr(usage_edit_dec[SORTED_TYPES[i]], 0)
            IN  /\ row.AmmoType = SORTED_TYPES[i]
                /\ r > 0 => /\ row.days_left_dec = [num |-> S, den |-> r]
                            /\ ShownRounds(row.DaysToRunOut, S, r)
                /\ r = 0 => /\ row.DaysToRunOut = INFINITY_MARK
                            /\ row.DaysToRunOut[1] # "num"

\* Half a round of hetz a day against a stock that is not empty: a number
\* of days is shown for hetz, the mark for a type with no usage.
C15_Witness ==
    /\ Ran8
    /\ \E i, j \in DOMAIN analysis_rows_dec :
          /\ analysis_rows_dec[i].DailyUsage = UNITS \div 2
          /\ analysis_rows_dec[i].current_total_dec > 0
          /\ analysis_rows_dec[i].DaysToRunOut[1] = "num"
          /\ analysis_rows_dec[j].DailyUsage = 0
          /\ analysis_rows_dec[j].DaysToRunOut = INFINITY_MARK

\* C16: for every row of the maintenance scenario, days until maintenance
\* is hours_left / daily_usage_hours when the daily usage is greater than 0
\* and the unbounded mark otherwise; an invalid hours cell counts as 100
\* and an invalid daily usage as 0.
C16_Maintenance ==
    Ran8 =>
        /\ Len(comp_rows_veh) = Len(veh_df)
        /\ \A i \in DOMAIN comp_rows_veh :
            LET row == comp_rows_veh[i]
                cells == IF i \in DOMAIN veh_scenario_edits
                         THEN veh_scenario_edits[i]
                         ELSE [hours |-> Num(100 * UNITS), usage |-> Num(0)]
                hours == CellOr(cells.hours, 100 * UNITS)
                use == CellOr(cells.usage, 0)
            IN  /\ row.Z = veh_df[i].simon
                /\ row.HoursToMaintenance = hours
                /\ row.DailyUsage = use
                /\ use > 0 => /\ row.days_left_maint = [num |-> hours, den |-> use]
                              /\ ShownRounds(row.DaysUntilMaintenance, hours, use)
                /\ use <= 0 => row.DaysUntilMaintenance = INFINITY_MARK

\* A row whose hours cell was cleared and whose usage is 3 hours a day:
\* 100 / 3, shown as 33.3.
C16_Witness ==
    /\ Ran8
    /\ \E i \in DOMAIN comp_rows_veh :
          /\ i \in DOMAIN veh_scenario_edits
          /\ veh_scenario_edits[i].hours = BLANK
          /\ comp_rows_veh[i].DailyUsage = 3 * UNITS
          /\ comp_rows_veh[i].DaysUntilMaintenance = Num(333)


\* A step in which save_with_history was called.
SaveStep == save_count' # save_count

\* Both writes of a save took effect, or neither did.
BothOrNeither(live, live_after, hist, hist_after, rows, ts) ==
    \/ live_after = rows /\ hist_after = hist \o Stamp(rows, ts)
    \/ live_after = live /\ hist_after = hist

\* C17: after save_with_history returns, either the live table holds the
\* saved rows and the history table has gained their timestamped copy, or
\* both tables are exactly as before the save; never one write without
\* the other.
C17_SaveAtomic ==
    [][SaveStep =>
         IF save_args'.table = "vehicles"
         THEN BothOrNeither(db_vehicles, db_vehicles', db_vehicles_history,
                            db_vehicles_history', save_args'.rows,
                            save_args'.ts)
         ELSE BothOrNeither(db_ammo, db_ammo', db_ammo_history,
                            db_ammo_history', save_args'.rows,
                            save_args'.ts)]_vars


\* Sequence h goes on as sequence g: every row of h is kept, in place.
Extends(g, h) == Len(h) <= Len(g) /\ SubSeq(g, 1, Len(h)) = h

\* The save replaced the live table and logged the rows under one ts.
ReplacedAndLogged(live_after, hist, hist_after, rows, ts) ==
    /\ live_after = rows
    /\ Extends(hist_after, hist)
    /\ Len(hist_after) = Len(hist) + Len(rows)
    /\ \A i \in DOMAIN rows :
          /\ hist_after[Len(hist) + i].ts = ts
          /\ \A c \in DOMAIN rows[i] : hist_after[Len(hist) + i][c] = rows[i][c]

\* C19: after a successful save the live table holds exactly the saved
\* rows, and the history table holds the rows it held before, unchanged,
\* plus one copy of each saved row under a single timestamp; no step ever
\* shrinks a history table.
C19_SaveReplacesAndLogs ==
    [][/\ Extends(db_vehicles_history', db_vehicles_history)
       /\ Extends(db_ammo_history', db_ammo_history)
       /\ (SaveStep /\ save_ok') =>
             IF save_args'.table = "vehicles"
             THEN ReplacedAndLogged(db_vehicles', db_vehicles_history,
                                    db_vehicles_history', save_args'.rows,
                                    save_args'.ts)
             ELSE ReplacedAndLogged(db_ammo', db_ammo_history,
                                    db_ammo_history', save_args'.rows,
                                    save_args'.ts)]_vars

\* A second successful save of the vehicles grid, one vehicle removed: the
\* live table is the one saved row, the history holds the earlier copies.
C19_Witness ==
    /\ save_ok /\ save_count = 2 /\ save_args.table = "vehicles"
    /\ Len(save_args.rows) = 1
    /\ db_vehicles = save_args.rows
    /\ Len(db_vehicles_history) = 3


\* C18: whatever the interleaving of saves and loads, the (vehicles, ammo)
\* pair a pass computes from is the two tables as they stood together
\* after some save (or before the first): never one table from before a
\* save and the other from after it.
C18_ConsistentSnapshot ==
    (Ran8 /\ load_pc = "idle") =>
        \E point \in db_log :
            /\ veh_df = LoadVehicles8(point[1])
            /\ ammo_df = LoadAmmo8(point[2])


\* The bundle definition is malformed: its standard is negative.
MalformedBundle == triple_standard < 0

\* C20: a Standards Table with a malformed bundle definition (a negative
\* bundle standard) is rejected with a fatal ConfigurationError at startup,
\* before any shortage computation runs.
C20_MalformedRejected ==
    (Ran8 /\ MalformedBundle) =>
        /\ err = "ConfigurationError"
        /\ shortage_numeric_rows = <<>>
        /\ summary_data = <<>>

\* An ammo row of the table that misses a required field: a quantity
\* column absent, or a quantity cell left blank.
MalformedRow(row) ==
    \E c \in AllAmmoCols : c \notin DOMAIN row \/ row[c] = BLANK

\* The shortage record of the last run for ammo row j of the table.
RecordOf(j) ==
    {i \in DOMAIN Records : Records[i]["Z"] = ammo_df[j].vehicle_id}

\* C21: a malformed ammo row is skipped without aborting the batch: it has
\* no shortage record, every well-formed row of the filtered ammo set has
\* its record, and the run ends with a result set.
C21_MalformedSkipped ==
    (app # "none" /\ Len(ammo_df) = Len(db_ammo)) =>
        /\ err \notin {"ValueError", "IndexError"}
        /\ \A j \in DOMAIN db_ammo :
              IF MalformedRow(db_ammo[j]) THEN RecordOf(j) = {}
              ELSE (\E k \in DOMAIN ammo_view :
                        ammo_view[k].vehicle_id = ammo_df[j].vehicle_id)
                   => RecordOf(j) # {}

C21_MalformedSkipped8 == Ran8 => C21_MalformedSkipped

\* No two rows of a frame carry the same identifier in column col.
OneRowPerId(df, col) ==
    \A i, j \in DOMAIN df : df[i][col] = df[j][col] => i = j

\* C22: whatever grids were saved and reloaded, the loaded registry has at
\* most one row per canonical identifier, and so has the loaded ledger.
C22_OneRowPerVehicle ==
    Ran8 => /\ OneRowPerId(veh_df, "simon")
            /\ OneRowPerId(ammo_df, "vehicle_id")

\* What the claim gives for an identifier text: "" for a missing or blank
\* one, the integer text for one that parses as a number, the stripped
\* text for any other.
CleanedAsClaimed(x) ==
    CASE x = <<>> -> ""
      [] x \in {<<"7">>, <<"7", ".", "5">>} -> "7"
      [] x \in {<<"4", "2">>, <<"4", "2", ".", "0">>, <<" ", "4", "2">>,
                <<"0", "4", "2">>, <<"4", "2", ".">>, <<"+", "4", "2">>}
            -> "42"
      [] x = <<"A", "4", "2">> -> "A42"
      [] x = <<"4", ".", "2">> -> "4"
      [] x = <<"-", "0", ".", "5">> -> "0"
      [] OTHER -> "inf"

\* C23: clean_id_column is total: load_data never ends in an exception of
\* the cleaning, and every identifier of the two loaded frames is what the
\* claim gives for the text in the table.
C23_CleanTotal ==
    Ran8 =>
        /\ err # "OverflowError"
        /\ Len(veh_df) = Len(db_vehicles) /\ Len(ammo_df) = Len(db_ammo)
        /\ \A i \in DOMAIN veh_df :
              veh_df[i].simon = CleanedAsClaimed(db_vehicles[i].simon)
        /\ \A i \in DOMAIN ammo_df :
              ammo_df[i].vehicle_id = CleanedAsClaimed(db_ammo[i].vehicle_id)

\* C24: a successful save clears the cached snapshot, so a pass that starts
\* after it computes from the rows just saved, never from the frame loaded
\* before the save.
C24_SaveInvalidatesCache ==
    (Ran8 /\ save_ok) =>
        /\ cached => IF save_args.table = "vehicles"
                     THEN veh_df = LoadVehicles8(save_args.rows)
                     ELSE ammo_df = LoadAmmo8(save_args.rows)
        /\ cached => /\ veh_df = LoadVehicles8(db_vehicles)
                     /\ ammo_df = LoadAmmo8(db_ammo)

\* A pass has run after a successful save that removed a vehicle from the
\* grid: it computes from the one row saved.
C24_Witness ==
    /\ Ran8 /\ save_ok /\ cached
    /\ save_args.table = "vehicles"
    /\ Len(save_args.rows) = 1
    /\ Len(veh_df) = 1 /\ Len(veh_view) = 1

\* The row's holding is below the standard of column c: its own standard
\* for an independent type, the bundle standard against the pooled holding
\* for a bundle member and for the combined column.
BelowStandard(row, c) ==
    IF c \in Range(STANDARDS_KEYS) THEN row[c] < STANDARDS_AMMO[c] * UNITS
    ELSE row.calanit + row.halul + row.hatzav < TRIPLE_AMMO_STANDARD * UNITS

\* C25: in the displayed shortage table an ammo cell is red exactly when
\* the row's holding is below the standard of its column and green
\* otherwise, and its text shows the shortage in parentheses exactly when
\* it is red.
C25_RedIffBelow ==
    Ran8 =>
        /\ Len(shortage_num_df) \in {0, Len(ammo_view)}
        /\ \A i \in DOMAIN shortage_num_df :
           \A c \in DOMAIN shortage_num_df[i] \ Range(base_cols_summary) :
              LET style == HighlightShortageSummary(shortage_num_df)[i][c]
              IN  /\ style = RED <=> BelowStandard(ammo_view[i], c)
                  /\ style = GREEN <=> ~BelowStandard(ammo_view[i], c)
                  /\ shortage_rows[i][c].paren <=> style = RED

\* A displayed row with a red cell and a green one, the red one short by
\* less than a whole round.
C25_Witness ==
    /\ Ran8
    /\ \E i \in DOMAIN shortage_num_df :
          /\ HighlightShortageSummary(shortage_num_df)[i].mag = RED
          /\ shortage_rows[i].mag.short = 0
          /\ HighlightShortageSummary(shortage_num_df)[i].barzel = GREEN
          /\ HighlightShortageSummary(shortage_num_df)[i].hetz = RED


\* Whether vehicles or ammo have been saved at least once.
SavedOnce == db_vehicles_history # <<>> \/ db_ammo_history # <<>>

\* C26: in app7, once vehicles or ammo have been saved at least once, the
\* History tab offers at least one snapshot time to select.
C26_HistoryOffered7 ==
    (Ran7 /\ SavedOnce) => all_hist_ts # <<>>

\* C26, the tab's own list alone: once vehicles or ammo have been saved,
\* the times app7 would offer on reaching the tab are not empty.
C26_HistTsNotEmpty7 ==
    SavedOnce => hist_ts7(db_vehicles_history, db_ammo_history) # <<>>


\* The rows a save wrote, as the History tab shows them: the identifier
\* in its cleaned rendering, every other cell as written.
ShownAs(rows, idcol) ==
    [i \in DOMAIN rows |->
        [c \in DOMAIN rows[i] |->
            IF c = idcol THEN _clean_val(rows[i][c]) ELSE rows[i][c]]]

\* The History tab is drawn with the select box at the time of the last
\* successful save, in a run that followed the save.
LastSaveSelected ==
    /\ Ran8 /\ cached /\ save_ok
    /\ all_hist_ts # <<>>
    /\ chosen_ts_hist = <<save_args.ts>>

\* C27: selecting a save's timestamp in the History tab returns exactly the
\* rows written by that save and no rows written by any other save.
C27_SaveRetrievable ==
    LastSaveSelected =>
        IF save_args.table = "vehicles"
        THEN df_veh_hist_snap = ShownAs(save_args.rows, "simon")
        ELSE df_ammo_hist_snap = ShownAs(save_args.rows, "vehicle_id")


\* Row r is the row of the pair (pluga, z).
OfPair(r, pluga, z) == r.pluga = pluga /\ r.z = z

\* The requirements table holds at most one row per (pluga, z) pair.
OneRowPerPair ==
    \A i, j \in DOMAIN db_requirements :
        OfPair(db_requirements[i], db_requirements[j].pluga,
               db_requirements[j].z) => i = j

\* Every requirements row carries the note of the pair's latest history row.
CarriesLatestNote ==
    \A i \in DOMAIN db_requirements :
        \E k \in DOMAIN db_requirements_history :
            /\ OfPair(db_requirements_history[k], db_requirements[i].pluga,
                      db_requirements[i].z)
            /\ \A m \in DOMAIN db_requirements_history :
                  OfPair(db_requirements_history[m],
                         db_requirements[i].pluga, db_requirements[i].z)
                     => m <= k
            /\ db_requirements[i].commander_note =
                  db_requirements_history[k].commander_note

\* What one click with the arguments a does to the two tables: a success
\* appends one history row, tagged by whether the pair had a row, and
\* leaves the note in the pair's row; a failure changes neither table.
NoteStepAsClaimed(req, req_after, hist, hist_after, a) ==
    IF a.ok
    THEN /\ Len(hist_after) = Len(hist) + 1
         /\ SubSeq(hist_after, 1, Len(hist)) = hist
         /\ OfPair(hist_after[Len(hist_after)], a.pluga, a.z)
         /\ hist_after[Len(hist_after)].commander_note = a.note
         /\ hist_after[Len(hist_after)].update_type =
               (IF \E i \in DOMAIN req : OfPair(req[i], a.pluga, a.z)
                THEN "Requirement Updated" ELSE "Requirement Added")
         /\ \E i \in DOMAIN req_after :
               /\ OfPair(req_after[i], a.pluga, a.z)
               /\ req_after[i].commander_note = a.note
    ELSE req_after = req /\ hist_after = hist

\* C28: the requirements table holds at most one row per (pluga, z) pair,
\* carrying the pair's most recently saved note; each successful "Save
\* Note" appends exactly one history row, tagged "Requirement Added" when
\* the pair had no row and "Requirement Updated" otherwise; a failed one
\* changes neither table.
C28_NotesUpsert ==
    /\ [](OneRowPerPair /\ CarriesLatestNote)
    /\ [][note_count' = note_count + 1 =>
            NoteStepAsClaimed(db_requirements, db_requirements',
                              db_requirements_history,
                              db_requirements_history', note_args')]_vars

\* A pair's note was added, then updated.
C28_Witness ==
    /\ note_args.ok
    /\ Len(db_requirements) = 1
    /\ Len(db_requirements_history) = 2
    /\ db_requirements_history[1].update_type = "Requirement Added"
    /\ db_requirements_history[2].update_type = "Requirement Updated"
    /\ db_requirements[1].commander_note = "repair"
    /\ db_requirements_history[1].commander_note = "refuel"


\* The text is a whole number as float() reads it: digits, with nothing
\* but zeros after the point.
WholeNumberText(s) ==
    /\ IsFloatText(s)
    /\ \A i \in DOMAIN s :
          (\E k \in 1..(i - 1) : s[k] = ".") => s[i] = "0"

\* Two identifier texts are renderings of the same identifier: equal after
\* trimming, or the same whole number (as "42" and "42.0").
SameIdentifier(x, y) ==
    \/ Strip(x) = Strip(y)
    \/ /\ WholeNumberText(Strip(x)) /\ WholeNumberText(Strip(y))
       /\ IntFloatStr(Strip(x)) = IntFloatStr(Strip(y))

\* The join gives ammo row i to registry vehicle j: the vehicle passed the
\* filter and the row's identifier equals the vehicle's.
Attributed(i, j) ==
    /\ ammo_df[i].vehicle_id = veh_df[j].simon
    /\ veh_df[j] \in Range(veh_view)
    /\ ammo_df[i] \in Range(ammo_view)

\* C29: the registry-ledger join gives an ammo row to a vehicle only when
\* the two identifiers, as the tables hold them, are renderings of the same
\* identifier.
C29_NoMergedVehicles ==
    (Ran8 /\ Len(veh_df) = Len(db_vehicles) /\ Len(ammo_df) = Len(db_ammo))
        => \A i \in DOMAIN ammo_df, j \in DOMAIN veh_df :
              Attributed(i, j) =>
                 SameIdentifier(db_ammo[i].vehicle_id, db_vehicles[j].simon)


\* Every ammo row has the ten ammo columns, each cell a number or blank.
TenNumericColumns ==
    \A i \in DOMAIN db_ammo :
        /\ AllAmmoCols \subseteq DOMAIN db_ammo[i]
        /\ \A c \in AllAmmoCols : db_ammo[i][c][1] \in {"num", "blank"}

\* The shortage values of a list of shortage rows: the independent types,
\* the bundle members and the combined bundle field of every row.
ShortageValues(rows) ==
    [i \in DOMAIN rows |->
        [c \in AllAmmoCols \cup {combined_triple_name} |-> rows[i][c]]]

\* What app7's loop builds from the tables under the filter (p, l, z).
LoopRows7(p, l, z) ==
    ShortageRows7(AmmoFiltered7(LoadAmmo7(db_ammo),
                                VehView7(LoadVehicles7(db_vehicles), p, l, z)),
                  LoadVehicles7(db_vehicles))

\* What app8's loop builds from the tables under the filter (p, l, z).
LoopRows8(p, l, z) ==
    ShortageNumericRows8(AmmoView8(LoadAmmo8(db_ammo),
                                   VehView(LoadVehicles8(db_vehicles),
                                           p, l, z)),
                         LoadVehicles8(db_vehicles))

\* C30: for every snapshot whose ammo rows hold the ten ammo columns with
\* numeric or blank quantities, and every filter, the shortage loop of app7
\* and the shortage loop of app8 give, row for row, the same shortage
\* values.
C30_SameShortages ==
    TenNumericColumns =>
        /\ (Ran8 /\ err # "OverflowError") =>
              ShortageValues(shortage_numeric_rows)
                 = ShortageValues(LoopRows7(pluga_sel, loc_sel, z_sel))
        /\ (Ran7 /\ ~LoadRaises8(db_vehicles, db_ammo)) =>
              ShortageValues(shortage_rows)
                 = ShortageValues(LoopRows8(pluga_sel, loc_sel, z_sel))

====
